---- MODULE Spec2Model ----
(***************************************************************************)
(* apimodelgen: the Type Graph Builder, the Transformation Pipeline, the   *)
(* API Mapper and the Patch Synthesizer, as a state machine.               *)
(*                                                                         *)
(* Strings are TLA+ strings; the Go string functions the code calls are    *)
(* operators computed character by character.  A WorkingType is a record;  *)
(* a pointer to a shell of Builder.byName is the record [ref |-> key].     *)
(* A TypeRef lives in the heap refs (a sequence of nodes, an address is    *)
(* an index, 0 is nil), so that sharing between a base field and a patch   *)
(* field is visible.                                                       *)
(***************************************************************************)
EXTENDS Integers, Sequences, FiniteSets, TLC

\* ------------------------------------------------------------------------
\* Go string functions (package strings), as the code uses them
\* ------------------------------------------------------------------------

\* The elements of a sequence
Range(q) == {q[i] : i \in 1..Len(q)}

Upper == "ABCDEFGHIJKLMNOPQRSTUVWXYZ"
Lower == "abcdefghijklmnopqrstuvwxyz"

\* s[i:] with a 1-based i
From(s, i) == SubSeq(s, i, Len(s))

\* s[i], a one-character string
At(s, i) == SubSeq(s, i, i)

HasSuffix(s, suf) == Len(s) >= Len(suf) /\ From(s, Len(s) - Len(suf) + 1) = suf

TrimSuffix(s, suf) == IF HasSuffix(s, suf) THEN SubSeq(s, 1, Len(s) - Len(suf)) ELSE s

\* strings.Index(s, sub), 1-based; 0 when sub does not occur
Index(s, sub) ==
    LET hits == {i \in 1..(Len(s) - Len(sub) + 1) : SubSeq(s, i, i + Len(sub) - 1) = sub}
    IN  IF hits = {} THEN 0 ELSE CHOOSE i \in hits : \A j \in hits : i <= j

Contains(s, sub) == Index(s, sub) # 0

LowerChar(c) ==
    LET hits == {i \in 1..Len(Upper) : At(Upper, i) = c}
    IN  IF hits = {} THEN c ELSE At(Lower, CHOOSE i \in hits : TRUE)

RECURSIVE ToLower(_)
ToLower(s) == IF s = "" THEN "" ELSE LowerChar(At(s, 1)) \o ToLower(From(s, 2))

\* strings.EqualFold on ASCII names
EqualFold(a, b) == ToLower(a) = ToLower(b)

RECURSIVE TrimLeft(_, _)
TrimLeft(s, c) == IF s # "" /\ At(s, 1) = c THEN TrimLeft(From(s, 2), c) ELSE s

RECURSIVE TrimRight(_, _)
TrimRight(s, c) ==
    IF s # "" /\ At(s, Len(s)) = c THEN TrimRight(SubSeq(s, 1, Len(s) - 1), c) ELSE s

\* strings.Trim(s, c) for a one-character cutset
Trim(s, c) == TrimRight(TrimLeft(s, c), c)

\* strings.TrimSpace, the inputs holding no white space but the blank
TrimSpace(s) == Trim(s, " ")

\* strings.Split(s, sep) for a one-character separator
RECURSIVE Split(_, _)
Split(s, sep) ==
    LET i == Index(s, sep)
    IN  IF i = 0 THEN <<s>> ELSE <<SubSeq(s, 1, i - 1)>> \o Split(From(s, i + 1), sep)

\* ------------------------------------------------------------------------
\* Struct tags
\* ------------------------------------------------------------------------

Quote == "\""

\* The back quote that delimits a raw string literal.  A TLA+ string cannot
\* hold that character; the apostrophe, which no tag holds, stands for it.
BackQuote == "'"

\* The literal of a field without a tag (RawField.TagLit == nil).  A tag
\* literal starts with the back quote, so this is none.
NilLit == "<nil>"

\* The absent value of a *string or of a pointer to a type.
Nil == [nil |-> TRUE]

\* Length of the key that starts tag: the scan of reflect.StructTag.Lookup
\* "to colon", which a space or a quote also ends.
RECURSIVE KeyLen(_)
KeyLen(tag) ==
    IF tag = "" \/ At(tag, 1) \in {" ", ":", Quote} THEN 0 ELSE 1 + KeyLen(From(tag, 2))

\* reflect.StructTag.Lookup: [ok, value].  The inputs hold no backslash, so
\* the closing quote is the next quote and Unquote strips the two quotes.
RECURSIVE Lookup(_, _)
Lookup(tagIn, key) ==
    LET tag == TrimLeft(tagIn, " ")
        i   == KeyLen(tag)
    IN  IF tag = "" THEN [ok |-> FALSE, value |-> ""]
        ELSE IF i = 0 \/ i + 1 >= Len(tag) \/ At(tag, i + 1) # ":" \/ At(tag, i + 2) # Quote
        THEN [ok |-> FALSE, value |-> ""]
        ELSE LET name == SubSeq(tag, 1, i)
                 rest == From(tag, i + 3)
                 end  == Index(rest, Quote)
             IN  IF end = 0 THEN [ok |-> FALSE, value |-> ""]
                 ELSE IF name = key THEN [ok |-> TRUE, value |-> SubSeq(rest, 1, end - 1)]
                 ELSE Lookup(From(rest, end + 1), key)

\* reflect.StructTag.Get
Get(tag, key) == Lookup(tag, key).value

\* m[key] = val on a map kept as a sequence of <<key, value>> in the order
\* of first insertion.
MapPut(m, key, val) ==
    IF \E i \in 1..Len(m) : m[i][1] = key
    THEN [i \in 1..Len(m) |-> IF m[i][1] = key THEN <<key, val>> ELSE m[i]]
    ELSE Append(m, <<key, val>>)

\* delete(m, key)
MapDelete(m, key) == SelectSeq(m, LAMBDA kv : kv[1] # key)

RECURSIVE ParseTagLoop(_, _)
ParseTagLoop(tag, m) ==
    LET cut  == Index(tag, ":" \o Quote)
        key  == SubSeq(tag, 1, cut - 1)
        rest == From(tag, cut + 2)
        end  == Index(rest, Quote)
    IN  IF tag = "" \/ cut = 0 \/ end = 0 THEN m
        ELSE ParseTagLoop(TrimSpace(From(rest, end + 1)), MapPut(m, key, SubSeq(rest, 1, end - 1)))

\* parseStructTagLit: the tag literal as a key -> value map
parseStructTagLit(lit) == IF lit = NilLit THEN <<>> ELSE ParseTagLoop(Trim(lit, BackQuote), <<>>)

RECURSIVE JoinTag(_)
JoinTag(m) ==
    IF m = <<>> THEN ""
    ELSE m[1][1] \o ":" \o Quote \o m[1][2] \o Quote
         \o (IF Len(m) > 1 THEN " " ELSE "") \o JoinTag(Tail(m))

\* buildTagLiteral.  Go ranges over the map in an unspecified order; the
\* order of the pairs changes no Lookup, the keys of a map being distinct,
\* and the literal is written here in insertion order.
buildTagLiteral(m) == BackQuote \o JoinTag(m) \o BackQuote

\* ------------------------------------------------------------------------
\* Bounds of the model
\* ------------------------------------------------------------------------

\* Most declarations the Declaration Source hands over in one run.
MaxDecls == 3

\* Most functional options given to New in one run.
MaxOpts == 2

\* ------------------------------------------------------------------------
\* Raw declarations (model.RawStruct, model.RawField, ast.Expr)
\* ------------------------------------------------------------------------

NilStr == "<nil>"

Ident(n) == [shape |-> "Ident", Name |-> n]
Star(x) == [shape |-> "Star", X |-> x]
Array(e) == [shape |-> "Array", Elt |-> e]
\* ast.IndexExpr and ast.IndexListExpr: X[Indices...]
IndexExpr(x, indices) == [shape |-> "Index", X |-> x, Indices |-> indices]

RawField(name, comment, expr, lit, embedded) ==
    [Name |-> name, Comment |-> comment, TypeExpr |-> expr, TagLit |-> lit,
     IsEmbedded |-> embedded]

RawStruct(name, comment, fields) ==
    [Name |-> name, Alias |-> NilStr, AliasPtr |-> FALSE, Comment |-> comment,
     TypeParams |-> <<>>, Fields |-> fields, PkgPath |-> "app/models"]

RawAlias(name, comment, elem, isPtr) ==
    [Name |-> name, Alias |-> elem, AliasPtr |-> isPtr, Comment |-> comment,
     TypeParams |-> <<>>, Fields |-> <<>>, PkgPath |-> "app/models"]

\* A type declaration of a scanned file (ast.TypeSpec with its comment and
\* the path of its package): type Name[TypeParams] Type, or type Name = Type
\* when Assign.
TypeSpec(name, comment, type) ==
    [Name |-> name, Comment |-> comment, TypeParams |-> <<>>, Assign |-> FALSE, Type |-> type,
     PkgPath |-> "app/models"]

\* ast.StructType, its fields as Parser.parseRawFields hands them over (an
\* embedded field is named after its type)
StructType(fields) == [shape |-> "Struct", Fields |-> fields]

\* The declarations a run of Parse draws from.
Catalogue ==
    << TypeSpec("Embedded", "Embedded carries the key", StructType(
         << RawField("ID", "", Ident("string"), "'json:\"id\" gorm:\"column:id;primaryKey\"'", FALSE),
            RawField("Secret", "", Ident("string"), "'json:\"secret\" dto:\"x;-\"'", FALSE),
            RawField("Old", "Deprecated: use ID", Ident("int"), NilLit, FALSE) >>)),
       TypeSpec("Widget", "", StructType(
         << RawField("Embedded", "", Ident("Embedded"), NilLit, TRUE),
            RawField("Age", "", Ident("int"), "'json:\"age\"'", FALSE),
            RawField("Parent", "", Star(Ident("Widget")), NilLit, FALSE),
            RawField("Items", "", Ident("Widgets"), NilLit, FALSE) >>)),
       TypeSpec("Widgets", "Widgets is deprecated", Array(Star(Ident("Widget")))),
       TypeSpec("Owner", "DEPRECATED: use Widget", StructType(
         << RawField("Embedded", "", Ident("Embedded"), "'gorm:\"<-:create\"'", TRUE),
            RawField("Ptrs", "", Array(Star(Ident("Widget"))), NilLit, FALSE),
            RawField("Tags", "", Array(Ident("string")), "'json:\"tags\"'", FALSE) >>)),
       TypeSpec("WidgetPatch", "Deprecated: written by hand", StructType(
         << RawField("Age", "", Star(Ident("int")), NilLit, FALSE) >>)),
       TypeSpec("WidgetDTO", "", StructType(
         << RawField("Logs", "", Array(Ident("Widget")), "'gorm:\"->\" dto:\"-\"'", FALSE) >>)) >>

\* The subsequences of 1..n with at most k elements, as increasing sequences.
RECURSIVE Picks(_, _, _)
Picks(from, n, k) ==
    IF from > n \/ k = 0 THEN {<<>>}
    ELSE Picks(from + 1, n, k) \cup {<<from>> \o p : p \in Picks(from + 1, n, k - 1)}

\* RawStructs.Find: the first declaration of that name, or Nil
Find(rs, name) ==
    LET hits == {i \in 1..Len(rs) : rs[i].Name = name}
    IN  IF hits = {} THEN Nil ELSE rs[CHOOSE i \in hits : \A j \in hits : i <= j]

\* ------------------------------------------------------------------------
\* Options and the functional options of New
\* ------------------------------------------------------------------------

TagFilter(k, v) == [Key |-> k, Value |-> v]

\* The Options New starts from.
NewDefault ==
    [Suffix |-> "", PatchSuffix |-> "", KeepORMTags |-> FALSE, FlattenEmbedded |-> TRUE,
     IncludeEmbedded |-> FALSE, ExcludeDeprecated |-> FALSE, ExcludeTypes |-> <<>>,
     ExcludeByTags |-> <<>>]

WithSuffix(o, s) == [o EXCEPT !.Suffix = s]
WithFlattenEmbedded(o) == [o EXCEPT !.FlattenEmbedded = TRUE, !.IncludeEmbedded = FALSE]
WithIncludeEmbedded(o) == [o EXCEPT !.IncludeEmbedded = TRUE, !.FlattenEmbedded = FALSE]
WithExcludeDeprecated(o) == [o EXCEPT !.ExcludeDeprecated = TRUE]
WithExcludeTypes(o, n) == [o EXCEPT !.ExcludeTypes = Append(@, TrimSpace(n))]
WithExcludeByTag(o, k, v) == [o EXCEPT !.ExcludeByTags = Append(@, TagFilter(k, v))]
WithKeepORMTags(o) == [o EXCEPT !.KeepORMTags = TRUE]

\* The functional options a caller may give, in the order given.
OptionList ==
    << [fn |-> "WithIncludeEmbedded"],
       [fn |-> "WithExcludeDeprecated"],
       [fn |-> "WithKeepORMTags"],
       [fn |-> "WithSuffix", s |-> "DTO"],
       [fn |-> "WithExcludeTypes", n |-> "Embedded"],
       [fn |-> "WithExcludeTypes", n |-> " widget"],
       [fn |-> "WithExcludeByTag", k |-> "dto", v |-> "-"] >>

ApplyOption(o, f) ==
    CASE f.fn = "WithIncludeEmbedded"   -> WithIncludeEmbedded(o)
      [] f.fn = "WithFlattenEmbedded"   -> WithFlattenEmbedded(o)
      [] f.fn = "WithExcludeDeprecated" -> WithExcludeDeprecated(o)
      [] f.fn = "WithKeepORMTags"       -> WithKeepORMTags(o)
      [] f.fn = "WithSuffix"            -> WithSuffix(o, f.s)
      [] f.fn = "WithExcludeTypes"      -> WithExcludeTypes(o, f.n)
      [] f.fn = "WithExcludeByTag"      -> WithExcludeByTag(o, f.k, f.v)

RECURSIVE ApplyOptions(_, _)
ApplyOptions(o, fs) == IF fs = <<>> THEN o ELSE ApplyOptions(ApplyOption(o, Head(fs)), Tail(fs))

\* A variant of NormalizePanics that C16 must tell from it: only the two
\* modes both set make Normalize panic.
NormalizePanics_both(o) == o.FlattenEmbedded /\ o.IncludeEmbedded

\* Options.Normalize: whether it panics
NormalizePanics(o) == o.FlattenEmbedded = o.IncludeEmbedded

\* Options.Normalize when it returns, on the fields the parser reads.  New's
\* default and the options above never make it panic.
Normalize(o) == IF o.PatchSuffix = "" THEN [o EXCEPT !.PatchSuffix = "Patch"] ELSE o

\* New(opts...): the Options of the Parser it returns
New(fs) == Normalize(ApplyOptions(NewDefault, fs))


\* ------------------------------------------------------------------------
\* The snapshot manifest (Manifest, Snapshot)
\* ------------------------------------------------------------------------

Snapshot(name, version, file) == [Name |-> name, Version |-> version, File |-> file]

\* &Manifest{}
EmptyManifest == [Snapshots |-> <<>>, CurrentVersion |-> "", PreviousVersion |-> ""]

\* The entries of m.Snapshots with the name and version of s
SameEntry(m, s) ==
    {i \in 1..Len(m.Snapshots) :
        m.Snapshots[i].Name = s.Name /\ m.Snapshots[i].Version = s.Version}

\* The version pointers of AddSnapshot
MoveVersions(m, s) ==
    [m EXCEPT !.PreviousVersion = IF m.CurrentVersion # "" THEN m.CurrentVersion ELSE @,
              !.CurrentVersion = s.Version]

\* A variant of AddSnapshot that C19 must tell from it: the snapshot is
\* appended whether or not an entry has its name and version.
AddSnapshot_append(m, s) == [MoveVersions(m, s) EXCEPT !.Snapshots = Append(@, s)]

\* Manifest.AddSnapshot
AddSnapshot(m, s) ==
    IF SameEntry(m, s) # {}
    THEN [MoveVersions(m, s) EXCEPT
            !.Snapshots[CHOOSE i \in SameEntry(m, s) : \A j \in SameEntry(m, s) : i <= j] = s]
    ELSE [MoveVersions(m, s) EXCEPT !.Snapshots = Append(@, s)]


VARIABLES
    pc,      \* where the run stands: configuring, then the steps of Parser.Parse
    args,    \* the functional options or command-line flags yet to be applied
    decls,   \* the type declarations of the scanned packages, in scan order
    opts,    \* Parser.Opts
    raws,    \* Parser.RawStructs
    byName,  \* Builder.byName: type name -> shell
    todo,    \* the keys of byName the running range loop has yet to visit
    out,     \* what BuildAll returns: pointers to shells, as their keys
    apiStructs,  \* Parser.ApiStructs
    refs,    \* the heap of model.TypeRef nodes; an address is an index, 0 is nil
    manifest, \* the snapshot Manifest: Snapshots, CurrentVersion, PreviousVersion
    extPkgs, \* Parser.extPkgs: import path -> the package loaded from it
    loads,   \* per import path, the calls made of resolvePkgDir and parser.ParseDir
    stack,   \* the calls of resolveRawField and resolveExternalType that have not returned
    ret      \* what the last resolveRawField call returned, its fields, Nil before

\* ------------------------------------------------------------------------
\* Working types (model.WorkingType, model.WorkingField)
\* ------------------------------------------------------------------------

WT(name, pkg, kind, under, fields, ext) ==
    [Name |-> name, PkgPath |-> pkg, Kind |-> kind, Underlying |-> under, Fields |-> fields,
     Comment |-> "", TypeParams |-> <<>>, IsExternal |-> ext, Omit |-> FALSE,
     NameResolved |-> FALSE]

\* &model.WorkingType{Name: name, Kind: model.KindBuiltin}
Builtin(name) == WT(name, "", "Builtin", Nil, <<>>, FALSE)

\* A *WorkingType that points at the shell byName[k]
Ref(k) == [ref |-> k]

IsRef(t) == "ref" \in DOMAIN t

\* The WorkingType a *WorkingType points at, bn being Builder.byName
Deref(bn, t) == IF IsRef(t) THEN bn[t.ref] ELSE t

builtinIdents ==
    {"string", "bool", "byte", "rune", "int", "int8", "int16", "int32", "int64", "uint",
     "uint8", "uint16", "uint32", "uint64", "float32", "float64", "complex64", "complex128",
     "error"}

\* ------------------------------------------------------------------------
\* Type Graph Builder.  b is the Builder: [byName, resolving].
\* ------------------------------------------------------------------------

\* NewBuilder
NewBuilder == [byName |-> <<>>, resolving |-> {}]

\* Builder.ensureWorkingType: [b, t], t the pointer to the shell
ensureWorkingType(b, name) ==
    IF name \in DOMAIN b.byName THEN [b |-> b, t |-> Ref(name)]
    ELSE LET raw == Find(raws, name)
             wt  == IF raw = Nil THEN WT(name, "", "Struct", Nil, <<>>, FALSE)
                    ELSE [WT(name, raw.PkgPath, "Struct", Nil, <<>>, FALSE)
                            EXCEPT !.Comment = raw.Comment, !.TypeParams = raw.TypeParams]
         IN  [b |-> [b EXCEPT !.byName = (name :> wt) @@ b.byName], t |-> Ref(name)]

\* A variant of shouldOmitFieldByTag that C1 must tell from it: the rule's
\* value against the whole value of the key, not against its parts.
shouldOmitFieldByTag_whole(rf) ==
    /\ rf.TagLit # NilLit
    /\ \E i \in 1..Len(opts.ExcludeByTags) :
          LET r == Lookup(Trim(rf.TagLit, BackQuote), opts.ExcludeByTags[i].Key)
          IN  r.ok /\ r.value = opts.ExcludeByTags[i].Value

\* Builder.shouldOmitFieldByTag
shouldOmitFieldByTag(rf) ==
    IF rf.TagLit = NilLit \/ Len(opts.ExcludeByTags) = 0 THEN FALSE
    ELSE LET raw == Trim(rf.TagLit, BackQuote)
         IN  /\ raw # ""
             /\ \E i \in 1..Len(opts.ExcludeByTags) :
                   LET f == opts.ExcludeByTags[i]
                       r == Lookup(raw, f.Key)
                       parts == Split(r.value, ";")
                   IN  r.ok /\ \E j \in 1..Len(parts) : parts[j] = f.Value

\* Builder.resolveIdentType: [b, t].  The catalogue names no type of an
\* imported package, so an identifier that is neither builtin nor local
\* falls through to the builtin-ish leaf.
resolveIdentType(b, name) ==
    IF name \in builtinIdents THEN [b |-> b, t |-> Builtin(name)]
    ELSE IF Find(raws, name) # Nil THEN ensureWorkingType(b, name)
    ELSE [b |-> b, t |-> Builtin(name)]

\* A variant of substituteParamsInWT that C25 must tell from it: only a
\* type that is itself named by a parameter gives place to the argument,
\* a pointer or a slice is passed through with its element as it is.
substituteParamsInWT_top(bn, wt, params, targs) ==
    IF wt = Nil THEN Nil
    ELSE IF \E i \in 1..Len(params) : Deref(bn, wt).Name = params[i]
    THEN targs[CHOOSE i \in 1..Len(params) :
                  /\ Deref(bn, wt).Name = params[i]
                  /\ \A j \in 1..(i - 1) : Deref(bn, wt).Name # params[j]]
    ELSE wt

\* Builder.substituteParamsInWT, bn being Builder.byName
RECURSIVE substituteParamsInWT(_, _, _, _)
substituteParamsInWT(bn, wt, params, targs) ==
    IF wt = Nil THEN Nil
    ELSE IF \E i \in 1..Len(params) : Deref(bn, wt).Name = params[i]
    THEN targs[CHOOSE i \in 1..Len(params) :
                  /\ Deref(bn, wt).Name = params[i]
                  /\ \A j \in 1..(i - 1) : Deref(bn, wt).Name # params[j]]
    ELSE IF Deref(bn, wt).Kind \in {"Pointer", "Slice"}
    THEN WT("", "", Deref(bn, wt).Kind,
            substituteParamsInWT(bn, Deref(bn, wt).Underlying, params, targs), <<>>, FALSE)
    ELSE wt

\* instantiateGeneric, the parameter names it substitutes: those of the
\* base, or T0, T1, ... when their number is not that of the arguments
ParamNames(base, targs) ==
    IF Len(base.TypeParams) = Len(targs) THEN base.TypeParams
    ELSE [i \in 1..Len(targs) |-> "T" \o SubSeq("0123456789", i, i)]

\* instantiateGeneric, from its test of the base on: the base itself when
\* it is external, no struct or without fields, else the new instance
Specialize(bn, t, base, targs) ==
    IF base.IsExternal \/ base.Kind # "Struct" \/ Len(base.Fields) = 0 THEN t
    ELSE [WT(base.Name, base.PkgPath, "Struct", Nil,
             [i \in 1..Len(base.Fields) |->
                 [base.Fields[i] EXCEPT
                    !.Type = substituteParamsInWT(bn, @, ParamNames(base, targs), targs)]],
             base.IsExternal)
            EXCEPT !.Comment = base.Comment]

\* instantiateGeneric, whether it populates the base first: a local struct
\* without fields that has a declaration.  Such a base is always a shell.
NeedsPopulate(b, t) ==
    /\ IsRef(t)
    /\ ~b.byName[t.ref].IsExternal /\ b.byName[t.ref].Kind = "Struct"
    /\ Len(b.byName[t.ref].Fields) = 0
    /\ Find(raws, b.byName[t.ref].Name) # Nil

RECURSIVE populateFields(_, _)

\* instantiateGeneric once an alias has given place to what it wraps: [b, t]
InstantiateBase(b, t, targs) ==
    IF NeedsPopulate(b, t)
    THEN [b |-> populateFields(b, t.ref),
          t |-> Specialize(populateFields(b, t.ref).byName, t,
                           populateFields(b, t.ref).byName[t.ref], targs)]
    ELSE [b |-> b, t |-> Specialize(b.byName, t, Deref(b.byName, t), targs)]

\* Builder.instantiateGeneric: [b, t]
instantiateGeneric(b, base, targs) ==
    IF Deref(b.byName, base).Kind = "Alias" /\ Deref(b.byName, base).Underlying # Nil
    THEN InstantiateBase(b, Deref(b.byName, base).Underlying, targs)
    ELSE InstantiateBase(b, base, targs)

RECURSIVE resolveTypeExpr(_, _)

\* The loop of resolveTypeExpr over the indices of T[A, B, ...], from
\* index i on: [b, ts]
RECURSIVE ResolveArgs(_, _, _)
ResolveArgs(b, indices, i) ==
    IF i > Len(indices) THEN [b |-> b, ts |-> <<>>]
    ELSE LET r    == resolveTypeExpr(b, indices[i])
             rest == ResolveArgs(r.b, indices, i + 1)
         IN  [b |-> rest.b, ts |-> <<r.t>> \o rest.ts]

\* Builder.resolveTypeExpr: [b, t]
resolveTypeExpr(b, expr) ==
    CASE expr.shape = "Ident" -> resolveIdentType(b, expr.Name)
      [] expr.shape = "Star" ->
           LET r == resolveTypeExpr(b, expr.X)
           IN  [b |-> r.b, t |-> WT("", "", "Pointer", r.t, <<>>, FALSE)]
      [] expr.shape = "Array" ->
           LET r == resolveTypeExpr(b, expr.Elt)
           IN  [b |-> r.b, t |-> WT("", "", "Slice", r.t, <<>>, FALSE)]
      [] expr.shape = "Index" ->
           LET r == resolveTypeExpr(b, expr.X)
               a == ResolveArgs(r.b, expr.Indices, 1)
           IN  instantiateGeneric(a.b, r.t, a.ts)
      [] OTHER -> [b |-> b, t |-> Builtin("UNKNOWN")]

\* The deprecation test of a comment, as the Builder and collectStructs write it
MarkedDeprecated(comment) == Contains(comment, "Deprecated") \/ Contains(comment, "deprecated")

\* Builder.resolveRawField: [b, fields]
resolveRawField(b, rf) ==
    IF shouldOmitFieldByTag(rf) THEN [b |-> b, fields |-> <<>>]
    ELSE LET tagMap == parseStructTagLit(rf.TagLit)
             rawTag == buildTagLiteral(tagMap)
             kept   == IF opts.KeepORMTags THEN tagMap
                       ELSE MapDelete(MapDelete(tagMap, "gorm"), "db")
             tag    == buildTagLiteral(kept)
             r      == resolveTypeExpr(b, rf.TypeExpr)
             wf     == [RawName |-> rf.Name, Name |-> rf.Name, Comment |-> rf.Comment,
                        Embedded |-> rf.IsEmbedded, Type |-> r.t,
                        Tag |-> Trim(tag, BackQuote), RawTag |-> Trim(rawTag, BackQuote),
                        Omit |-> FALSE,
                        Deprecated |-> opts.ExcludeDeprecated /\ MarkedDeprecated(rf.Comment)]
         IN  [b |-> r.b, fields |-> <<wf>>]

\* A variant of resolveTypeExprAlias that C13 must tell from it: the
\* element is never a pointer.
resolveTypeExprAlias_noPtr(b, aliasName, aliasPtr) ==
    WT("", "", "Slice",
       IF aliasName \in DOMAIN b.byName THEN Ref(aliasName)
       ELSE WT(aliasName, "", "Struct", Nil, <<>>, FALSE),
       <<>>, FALSE)

\* Builder.resolveTypeExprAlias: the type an alias declaration points at.
\* loadExternalRawStruct("", aliasName) answers nil for its empty path, so
\* an element that is no shell becomes the bare struct leaf.
resolveTypeExprAlias(b, aliasName, aliasPtr) ==
    LET elem == IF aliasName \in DOMAIN b.byName THEN Ref(aliasName)
                ELSE WT(aliasName, "", "Struct", Nil, <<>>, FALSE)
    IN  IF aliasPtr
        THEN WT("", "", "Slice", WT("", "", "Pointer", elem, <<>>, FALSE), <<>>, FALSE)
        ELSE WT("", "", "Slice", elem, <<>>, FALSE)

\* The loop of populateFields over raw.Fields, from field i on
RECURSIVE PopulateLoop(_, _, _, _)
PopulateLoop(b, k, fields, i) ==
    IF i > Len(fields) THEN b
    ELSE LET r  == resolveRawField(b, fields[i])
             b2 == [r.b EXCEPT !.byName[k].Fields = @ \o r.fields]
         IN  PopulateLoop(b2, k, fields, i + 1)

\* A variant of populateFields that C23 must tell from it: the type stays
\* in the resolving set when the call returns.
populateFields_keep(b, k) ==
    IF k \in b.resolving THEN b
    ELSE LET name == b.byName[k].Name
             raw  == Find(raws, name)
             b1   == [b EXCEPT !.resolving = @ \cup {name}]
         IN  IF raw = Nil THEN b1
             ELSE IF raw.Alias # NilStr
             THEN [b1 EXCEPT !.byName[k].Kind = "Alias",
                             !.byName[k].Underlying =
                                 resolveTypeExprAlias(b1, raw.Alias, raw.AliasPtr)]
             ELSE PopulateLoop(b1, k, raw.Fields, 1)

\* Builder.populateFields on the shell byName[k]
populateFields(b, k) ==
    IF k \in b.resolving THEN b
    ELSE LET name == b.byName[k].Name
             raw  == Find(raws, name)
             b1   == [b EXCEPT !.resolving = @ \cup {name}]
             b2   == IF raw = Nil THEN b1
                     ELSE IF raw.Alias # NilStr
                     THEN [b1 EXCEPT !.byName[k].Kind = "Alias",
                                     !.byName[k].Underlying =
                                         resolveTypeExprAlias(b1, raw.Alias, raw.AliasPtr)]
                     ELSE PopulateLoop(b1, k, raw.Fields, 1)
         IN  [b2 EXCEPT !.resolving = @ \ {name}]

\* ------------------------------------------------------------------------
\* Transformation Pipeline
\* ------------------------------------------------------------------------

\* Builder.isTypeExcluded
isTypeExcluded(name) ==
    IF Len(opts.ExcludeTypes) = 0 \/ name = "" THEN FALSE
    ELSE \E i \in 1..Len(opts.ExcludeTypes) : opts.ExcludeTypes[i] = ToLower(name)

\* Builder.filterDeprecated
filterDeprecated(wt) ==
    IF ~opts.ExcludeDeprecated THEN wt
    ELSE IF MarkedDeprecated(wt.Comment) THEN [wt EXCEPT !.Omit = TRUE]
    ELSE [wt EXCEPT !.Fields = SelectSeq(@, LAMBDA f : ~f.Deprecated)]

\* Whether a field's type is a struct with fields, as both flattening passes ask
HasStructFields(bn, f) ==
    /\ f.Type # Nil
    /\ Deref(bn, f.Type).Kind = "Struct"
    /\ Len(Deref(bn, f.Type).Fields) > 0

\* The loop of flattenEmbedded, from field i on
RECURSIVE FlattenLoop(_, _, _)
FlattenLoop(bn, fields, i) ==
    IF i > Len(fields) THEN <<>>
    ELSE LET f     == fields[i]
             inner == IF HasStructFields(bn, f) THEN Deref(bn, f.Type).Fields ELSE <<>>
             here  == IF ~f.Embedded THEN <<f>>
                      ELSE IF opts.FlattenEmbedded THEN inner
                      ELSE IF opts.IncludeEmbedded THEN <<f>> \o inner
                      ELSE <<f>>
         IN  here \o FlattenLoop(bn, fields, i + 1)

\* A variant of flattenEmbedded that C7 must tell from it: the embedded
\* fields stay as they are.
flattenEmbedded_keep(bn, wt) == wt

\* Builder.flattenEmbedded
flattenEmbedded(bn, wt) ==
    IF ~opts.FlattenEmbedded \/ wt.Kind # "Struct" THEN wt
    ELSE [wt EXCEPT !.Fields = FlattenLoop(bn, wt.Fields, 1)]

\* Builder.isTagEmbedded
isTagEmbedded(tag) ==
    /\ tag # ""
    /\ \E f \in {TagFilter("gorm", "embedded"), TagFilter("db", "embedded"),
                 TagFilter("json", "inline"), TagFilter("yaml", "inline"),
                 TagFilter("mapstructure", "squash")} :
          LET r == Lookup(tag, f.Key)
              parts == Split(r.value, ";")
          IN  r.ok /\ \E j \in 1..Len(parts) : parts[j] = f.Value

\* The loop of flattenTagEmbedded, from field i on
RECURSIVE FlattenTagLoop(_, _, _)
FlattenTagLoop(bn, fields, i) ==
    IF i > Len(fields) THEN <<>>
    ELSE LET f    == fields[i]
             here == IF ~isTagEmbedded(f.RawTag) \/ f.Type = Nil
                        \/ Deref(bn, f.Type).Kind # "Struct" THEN <<f>>
                     ELSE IF opts.FlattenEmbedded THEN Deref(bn, f.Type).Fields
                     ELSE IF opts.IncludeEmbedded THEN <<f>> \o Deref(bn, f.Type).Fields
                     ELSE <<f>>
         IN  here \o FlattenTagLoop(bn, fields, i + 1)

\* Builder.flattenTagEmbedded
flattenTagEmbedded(bn, wt) ==
    IF wt.Kind # "Struct" THEN wt
    ELSE [wt EXCEPT !.Fields = FlattenTagLoop(bn, wt.Fields, 1)]

\* A variant of applySuffix that C11 must tell from it: the suffix is
\* appended whether or not the name ends with it.
applySuffix_always(wt) ==
    IF wt.NameResolved \/ opts.Suffix = "" THEN wt
    ELSE [wt EXCEPT !.Name = @ \o opts.Suffix, !.NameResolved = TRUE]

\* Builder.applySuffix
applySuffix(wt) ==
    IF wt.NameResolved \/ opts.Suffix = "" THEN wt
    ELSE IF HasSuffix(wt.Name, opts.Suffix) THEN [wt EXCEPT !.NameResolved = TRUE]
    ELSE [wt EXCEPT !.Name = @ \o opts.Suffix, !.NameResolved = TRUE]

\* The loop of dedupeFields, from field i on, seen the names met so far
RECURSIVE DedupeLoop(_, _, _)
DedupeLoop(fields, i, seen) ==
    IF i > Len(fields) THEN <<>>
    ELSE LET name == fields[i].Name
         IN  IF name = "" THEN <<fields[i]>> \o DedupeLoop(fields, i + 1, seen)
             ELSE IF name \in seen THEN DedupeLoop(fields, i + 1, seen)
             ELSE <<fields[i]>> \o DedupeLoop(fields, i + 1, seen \cup {name})

\* A variant of dedupeFields that C12 must tell from it: of the fields of
\* one name the last is kept, not the first.
dedupeFields_last(wt) ==
    IF wt.Kind # "Struct" THEN wt
    ELSE [wt EXCEPT !.Fields =
            SelectSeq(@, LAMBDA f : f.Name = "" \/
                         \E i \in 1..Len(wt.Fields) :
                            /\ wt.Fields[i] = f
                            /\ \A j \in (i + 1)..Len(wt.Fields) : wt.Fields[j].Name # f.Name)]

\* Builder.dedupeFields
dedupeFields(wt) ==
    IF wt.Kind # "Struct" THEN wt ELSE [wt EXCEPT !.Fields = DedupeLoop(@, 1, {})]

\* Builder.applyTransformations on the shell bn[k]: the table after it.  A
\* pass that reads an embedded type reads its shell as it is in bn, where a
\* type that embeds itself finds the fields it had when the pass began.
applyTransformations(bn, k) ==
    LET wt == bn[k]
    IN  IF wt.Omit THEN bn
        ELSE IF isTypeExcluded(wt.Name) THEN [bn EXCEPT ![k].Omit = TRUE]
        ELSE LET w1 == filterDeprecated(wt)
             IN  IF w1.Omit THEN [bn EXCEPT ![k] = w1]
                 ELSE LET w2 == flattenEmbedded([bn EXCEPT ![k] = w1], w1)
                          w3 == flattenTagEmbedded([bn EXCEPT ![k] = w2], w2)
                      IN  [bn EXCEPT ![k] = dedupeFields(applySuffix(w3))]

\* The orders in which a range over the keys S may visit them
RECURSIVE Orders(_)
Orders(S) ==
    IF S = {} THEN {<<>>} ELSE UNION {{<<k>> \o o : o \in Orders(S \ {k})} : k \in S}

\* The loop of BuildAll's step 1 over raws, from declaration i on
RECURSIVE CreateShellsLoop(_, _)
CreateShellsLoop(b, i) ==
    IF i > Len(raws) THEN b ELSE CreateShellsLoop(ensureWorkingType(b, raws[i].Name).b, i + 1)

\* Builder.BuildAll run from a fresh Builder, its ranges visiting the keys
\* in the order ks: [byName, out]
RECURSIVE PopulateAll(_, _, _)
PopulateAll(b, ks, i) ==
    IF i > Len(ks) THEN b ELSE PopulateAll(populateFields(b, ks[i]), ks, i + 1)

RECURSIVE TransformAll(_, _, _)
TransformAll(bn, ks, i) ==
    IF i > Len(ks) THEN bn ELSE TransformAll(applyTransformations(bn, ks[i]), ks, i + 1)

\* BuildAll's step 4 over the transformed shells bn
GatherAll(bn, ks) == [byName |-> bn, out |-> SelectSeq(ks, LAMBDA k : ~bn[k].Omit)]

BuildAll(ks) ==
    GatherAll(TransformAll(PopulateAll(CreateShellsLoop(NewBuilder, 1), ks, 1).byName, ks, 1), ks)

\* The names of the declarations, each once, in the order of raws
RECURSIVE RawNames(_, _)
RawNames(i, seen) ==
    IF i > Len(raws) THEN <<>>
    ELSE IF raws[i].Name \in seen THEN RawNames(i + 1, seen)
    ELSE <<raws[i].Name>> \o RawNames(i + 1, seen \cup {raws[i].Name})

\* Parser.BuildWorkingModel as resolveAliasSliceElem calls it.  What that
\* caller reads of the result (which aliases are kept, the final name of
\* an alias and of its element) does not depend on the order of the ranges.
BuildWorkingModel == BuildAll(RawNames(1, {}))

\* ------------------------------------------------------------------------
\* API Mapper.  h is the heap of TypeRefs; an operator that allocates
\* answers [h, a] (a the address) or [h, f], [h, api].
\* ------------------------------------------------------------------------

TypeRef(pkg, name, isPtr, isSlice, elem) ==
    [PkgPath |-> pkg, Name |-> name, IsPtr |-> isPtr, IsSlice |-> isSlice, Elem |-> elem]

\* &model.TypeRef{...}
Alloc(h, node) == [h |-> Append(h, node), a |-> Len(h) + 1]

\* workingTypeToTypeRef
RECURSIVE workingTypeToTypeRef(_, _, _)
workingTypeToTypeRef(h, bn, wt) ==
    IF wt = Nil THEN Alloc(h, TypeRef("", "UNKNOWN", FALSE, FALSE, 0))
    ELSE LET w == Deref(bn, wt)
         IN  CASE w.Kind = "Pointer" ->
                    LET inner == workingTypeToTypeRef(h, bn, w.Underlying)
                    IN  Alloc([inner.h EXCEPT ![inner.a].IsPtr = FALSE],
                              TypeRef("", "", TRUE, FALSE, inner.a))
               [] w.Kind = "Slice" ->
                    LET inner == workingTypeToTypeRef(h, bn, w.Underlying)
                    IN  Alloc(inner.h, TypeRef("", "", FALSE, TRUE, inner.a))
               [] w.Kind \in {"Struct", "Builtin", "Alias"} ->
                    Alloc(h, TypeRef(w.PkgPath, w.Name, FALSE, FALSE, 0))
               [] OTHER -> Alloc(h, TypeRef("", "UNKNOWN", FALSE, FALSE, 0))

\* isExportedName
isExportedName(name) == name # "" /\ Contains(Upper, At(name, 1))

\* workingFieldToApiField: [h, f]
workingFieldToApiField(h, bn, wf) ==
    LET r == workingTypeToTypeRef(h, bn, wf.Type)
    IN  [h |-> r.h,
         f |-> [Name |-> IF wf.Embedded THEN Deref(bn, wf.Type).Name ELSE wf.Name,
                Type |-> r.a, Tag |-> wf.Tag, RawTag |-> wf.RawTag, Comment |-> wf.Comment,
                Omit |-> wf.Omit, IsEmbedded |-> wf.Embedded]]

\* model.ApiStruct, without the import set the renderer reads
ApiStruct(name, alias, aliasPtr, comment, fields) ==
    [Name |-> name, Alias |-> alias, AliasPtr |-> aliasPtr, Comment |-> comment,
     Fields |-> fields, PkgName |-> ""]

\* The loop of workingStructToApiStruct, from field i on: [h, fields]
RECURSIVE ApiFieldsLoop(_, _, _, _)
ApiFieldsLoop(h, bn, fields, i) ==
    IF i > Len(fields) THEN [h |-> h, fields |-> <<>>]
    ELSE LET wf == fields[i]
         IN  IF wf.Omit \/ (~(wf.Name = "" /\ wf.Embedded /\ opts.IncludeEmbedded)
                            /\ ~isExportedName(wf.Name))
             THEN ApiFieldsLoop(h, bn, fields, i + 1)
             ELSE LET tf   == workingFieldToApiField(h, bn, wf)
                      rest == ApiFieldsLoop(tf.h, bn, fields, i + 1)
                  IN  [h |-> rest.h, fields |-> <<tf.f>> \o rest.fields]

\* workingStructToApiStruct: [h, api], api a sequence of one struct
workingStructToApiStruct(h, bn, wt) ==
    LET r == ApiFieldsLoop(h, bn, wt.Fields, 1)
    IN  [h |-> r.h, api |-> <<ApiStruct(wt.Name, NilStr, FALSE, wt.Comment, r.fields)>>]

\* workingAliasToApiStruct: a sequence of one struct, or of none for nil
workingAliasToApiStruct(bn, wt) ==
    IF wt.Underlying = Nil THEN <<>>
    ELSE IF wt.Underlying.Kind # "Slice" \/ wt.Underlying.Underlying = Nil THEN <<>>
    ELSE LET elem   == Deref(bn, wt.Underlying.Underlying)
             isPtr  == elem.Kind = "Pointer" /\ elem.Underlying # Nil
             target == IF isPtr THEN Deref(bn, elem.Underlying) ELSE elem
         IN  <<ApiStruct(wt.Name, target.Name, isPtr, wt.Comment, <<>>)>>

\* Whether ToApiStructs skips the type wt
SkipType(wt) ==
    \/ /\ Len(opts.ExcludeTypes) > 0
       /\ \/ Len(wt.TypeParams) > 0
          \/ LET name == IF opts.Suffix # "" /\ HasSuffix(wt.Name, opts.Suffix)
                         THEN TrimSuffix(wt.Name, opts.Suffix) ELSE wt.Name
             IN  \E i \in 1..Len(opts.ExcludeTypes) : EqualFold(opts.ExcludeTypes[i], name)
    \/ /\ wt.Kind = "Alias" /\ wt.Underlying # Nil
       /\ LET n0 == wt.Underlying.Name
              baseName == IF opts.Suffix # "" /\ HasSuffix(n0, opts.Suffix)
                          THEN TrimSuffix(n0, opts.Suffix) ELSE n0
          IN  \E i \in 1..Len(opts.ExcludeTypes) : EqualFold(opts.ExcludeTypes[i], baseName)

\* ToApiStructs over types[i..]: [h, api]
RECURSIVE ToApiStructs(_, _, _, _)
ToApiStructs(h, bn, types, i) ==
    IF i > Len(types) THEN [h |-> h, api |-> <<>>]
    ELSE LET wt == bn[types[i]]
         IN  IF wt.Omit \/ SkipType(wt) THEN ToApiStructs(h, bn, types, i + 1)
             ELSE LET one  == CASE wt.Kind = "Struct" -> workingStructToApiStruct(h, bn, wt)
                                [] wt.Kind = "Alias" ->
                                     [h |-> h, api |-> workingAliasToApiStruct(bn, wt)]
                                [] OTHER -> [h |-> h, api |-> <<>>]
                      rest == ToApiStructs(one.h, bn, types, i + 1)
                  IN  [h |-> rest.h, api |-> one.api \o rest.api]

\* ------------------------------------------------------------------------
\* Patch Synthesizer
\* ------------------------------------------------------------------------

\* A variant of ApiStructs.Find that C5 must tell from it: it finds nothing.
ApiStructsFind_none(x, name) == Nil

\* ApiStructs.Find: the first struct of that name, or Nil
ApiStructsFind(x, name) ==
    LET hits == {i \in 1..Len(x) : x[i].Name = name}
    IN  IF hits = {} THEN Nil ELSE x[CHOOSE i \in hits : \A j \in hits : i <= j]

\* A variant of isGormReadOnly that C3 must tell from it: the primary key
\* is not held read-only.
isGormReadOnly_noKey(tag) ==
    /\ tag # ""
    /\ \E part \in Range(Split(Get(tag, "gorm"), ";")) : TrimSpace(part) \in {"->", "<-:create"}

\* Parser.isGormReadOnly
isGormReadOnly(tag) ==
    /\ tag # ""
    /\ LET raw   == Get(tag, "gorm")
           parts == Split(raw, ";")
       IN  /\ raw # ""
           /\ \E i \in 1..Len(parts) : TrimSpace(parts[i]) \in {"->", "<-:create", "primaryKey"}

\* A variant of pointerizeTypeRef that C2 must tell from it: the type
\* itself, no pointer added.
pointerizeTypeRef_same(h, t) == [h |-> h, a |-> t]

\* pointerizeTypeRef
pointerizeTypeRef(h, t) ==
    IF t = 0 THEN [h |-> h, a |-> 0] ELSE Alloc(h, TypeRef("", "", TRUE, FALSE, t))

\* A variant of cloneTypeRef that C6 must tell from it: no copy, the
\* TypeRef itself.
cloneTypeRef_alias(h, t) == [h |-> h, a |-> t]

\* cloneTypeRef
RECURSIVE cloneTypeRef(_, _)
cloneTypeRef(h, t) ==
    IF t = 0 THEN [h |-> h, a |-> 0]
    ELSE LET c == Alloc(h, TypeRef(h[t].PkgPath, h[t].Name, h[t].IsPtr, h[t].IsSlice, 0))
         IN  IF h[t].Elem = 0 THEN c
             ELSE LET e == cloneTypeRef(c.h, h[t].Elem)
                  IN  [h |-> [e.h EXCEPT ![c.a].Elem = e.a], a |-> c.a]

\* The node the Elem chain from a ends at
RECURSIVE Leaf(_, _)
Leaf(h, a) == IF a # 0 /\ h[a].Elem # 0 THEN Leaf(h, h[a].Elem) ELSE a

\* A variant of pointerizePatchStructType that C27 must tell from it: a
\* pointer to the embedded type itself, not to its Patch variant.
pointerizePatchStructType_base(h, t) ==
    IF t = 0 THEN [h |-> h, a |-> 0]
    ELSE pointerizeTypeRef(cloneTypeRef(h, t).h, cloneTypeRef(h, t).a)

\* Parser.pointerizePatchStructType
pointerizePatchStructType(h, t) ==
    IF t = 0 THEN [h |-> h, a |-> 0]
    ELSE LET clone == cloneTypeRef(h, t)
             leaf  == Leaf(clone.h, clone.a)
             h2    == IF leaf # 0 /\ ~HasSuffix(clone.h[leaf].Name, opts.PatchSuffix)
                      THEN [clone.h EXCEPT ![leaf].Name = @ \o opts.PatchSuffix]
                      ELSE clone.h
         IN  pointerizeTypeRef(h2, clone.a)

\* Parser.resolveName
resolveName(name) ==
    IF opts.Suffix # "" /\ ~HasSuffix(name, opts.Suffix) THEN name \o opts.Suffix ELSE name

\* Parser.resolveAliasSliceElem, wm being what its p.BuildWorkingModel()
\* answers (the same at every call within one buildPatchStructs)
resolveAliasSliceElem(h, wm, t) ==
    IF t = 0 \/ h[t].Name = "" THEN [h |-> h, a |-> 0]
    ELSE LET wt(i) == wm.byName[wm.out[i]]
             hits == {i \in 1..Len(wm.out) :
                        /\ wt(i).Name = h[t].Name /\ wt(i).Kind = "Alias"
                        /\ wt(i).Underlying # Nil
                        /\ wt(i).Underlying.Kind = "Slice"
                        /\ wt(i).Underlying.Underlying # Nil}
         IN  IF hits = {} THEN [h |-> h, a |-> 0]
             ELSE workingTypeToTypeRef(h, wm.byName,
                      wt(CHOOSE i \in hits : \A j \in hits : i <= j).Underlying.Underlying)

\* Parser.buildPatchSliceFieldType, its choice of the element: [h, a]
BaseElem(h, wm, t) ==
    IF h[t].IsSlice THEN [h |-> h, a |-> h[t].Elem]
    ELSE LET aliasElem == resolveAliasSliceElem(h, wm, t)
             raw       == Find(raws, h[t].Name)
         IN  IF aliasElem.a # 0 THEN aliasElem
             ELSE IF raw # Nil /\ raw.Alias # NilStr
             THEN Alloc(h, TypeRef("", raw.Alias, FALSE, FALSE, 0))
             ELSE [h |-> h, a |-> 0]

\* Parser.buildPatchSliceFieldType, the name of the element's Patch struct,
\* b0 being the element found and h the heap it lives in
ElemPatchName(h, b0) ==
    LET underlying == IF b0.IsPtr /\ b0.Elem # 0 THEN h[b0.Elem] ELSE b0
        elemName   == IF opts.Suffix # "" /\ ~HasSuffix(underlying.Name, opts.Suffix)
                      THEN resolveName(underlying.Name) ELSE underlying.Name
    IN  elemName \o opts.PatchSuffix

\* Parser.buildPatchSliceFieldType, the type it builds around the element's
\* Patch name: *PatchSlice[T] or *PatchSlice[*T]
PatchSliceRef(h, isPtr, elemPatchName) ==
    LET inner   == Alloc(h, TypeRef("", elemPatchName, FALSE, FALSE, 0))
        elemRef == IF isPtr
                   THEN Alloc(inner.h, TypeRef("", elemPatchName, TRUE, FALSE, inner.a))
                   ELSE inner
    IN  Alloc(elemRef.h, TypeRef("", "PatchSlice", TRUE, FALSE, elemRef.a))

\* Parser.buildPatchSliceFieldType once the element is chosen: base is
\* what BaseElem answered
PatchSliceOrPointer(h, t, base) ==
    IF base.a = 0 THEN pointerizeTypeRef(h, t)
    ELSE PatchSliceRef(base.h, base.h[base.a].IsPtr, ElemPatchName(base.h, base.h[base.a]))

\* Parser.buildPatchSliceFieldType
buildPatchSliceFieldType(h, wm, t) ==
    IF t = 0 THEN [h |-> h, a |-> 0] ELSE PatchSliceOrPointer(h, t, BaseElem(h, wm, t))

\* The loop of buildPatchStructs over base.Fields, from field i on: [h, fields]
RECURSIVE PatchFieldsLoop(_, _, _, _)
PatchFieldsLoop(h, wm, fields, i) ==
    IF i > Len(fields) THEN [h |-> h, fields |-> <<>>]
    ELSE LET f == fields[i]
         IN  IF f.Omit THEN PatchFieldsLoop(h, wm, fields, i + 1)
             ELSE LET ty   == IF isGormReadOnly(f.RawTag) THEN [h |-> h, a |-> f.Type]
                              ELSE IF f.IsEmbedded THEN pointerizePatchStructType(h, f.Type)
                              ELSE buildPatchSliceFieldType(h, wm, f.Type)
                      pf   == [Name |-> f.Name, Type |-> ty.a, Tag |-> f.Tag, RawTag |-> "",
                               Comment |-> f.Comment, Omit |-> FALSE,
                               IsEmbedded |-> f.IsEmbedded]
                      rest == PatchFieldsLoop(ty.h, wm, fields, i + 1)
                  IN  [h |-> rest.h, fields |-> <<pf>> \o rest.fields]

\* The suffix buildPatchStructs names a patch with
PatchSuffixOrDefault == IF opts.PatchSuffix = "" THEN "Patch" ELSE opts.PatchSuffix

\* Whether buildPatchStructs passes over base, api being p.ApiStructs now
SkipPatch(api, base) ==
    \/ ApiStructsFind(api, base.Name \o PatchSuffixOrDefault) # Nil
    \/ Len(base.Fields) = 0
    \/ opts.ExcludeDeprecated /\ Contains(ToLower(base.Comment), "deprecated")

\* The loop of buildPatchStructs over baseStructs, from base i on: [h, api]
RECURSIVE PatchLoop(_, _, _, _, _)
PatchLoop(h, wm, api, bases, i) ==
    IF i > Len(bases) THEN [h |-> h, api |-> api]
    ELSE LET base == bases[i]
         IN  IF SkipPatch(api, base) THEN PatchLoop(h, wm, api, bases, i + 1)
             ELSE LET r     == PatchFieldsLoop(h, wm, base.Fields, 1)
                      patch == [ApiStruct(base.Name \o PatchSuffixOrDefault, NilStr, FALSE,
                                          base.Comment, r.fields)
                                  EXCEPT !.PkgName = base.PkgName]
                  IN  PatchLoop(r.h, wm, Append(api, patch), bases, i + 1)

\* Parser.buildPatchStructs: [h, api]
buildPatchStructs(h, api) ==
    PatchLoop(h, BuildWorkingModel, api,
              SelectSeq(api, LAMBDA a : a.Alias = NilStr /\ ~HasSuffix(a.Name, PatchSuffixOrDefault)),
              1)

\* ------------------------------------------------------------------------
\* External packages (Parser.getExternalStructAST, Builder.resolveExternalType)
\* ------------------------------------------------------------------------

\* ast.SelectorExpr: X.Sel
Selector(x, sel) == [shape |-> "Selector", X |-> x, Sel |-> sel]

\* ImportMeta, on its Path and Dir; Dir is "" for an import that is no
\* module with a directory of its own
ImportMeta(path, dir) == [Path |-> path, Dir |-> dir]

\* Parser.Imports, the map the Builder has as b.imports: alias -> ImportMeta.
\* The module ext is on disk at /mod; time is of the standard library.
Imports ==
    ("ext" :> ImportMeta("ext", "/mod")) @@ ("list" :> ImportMeta("ext/list", ""))
        @@ ("geo" :> ImportMeta("ext/geo", "")) @@ ("time" :> ImportMeta("time", ""))

\* The import paths that are looked up: those of Imports, and that of a
\* package of the module ext that is not on disk
ImportPaths == {Imports[a].Path : a \in DOMAIN Imports} \cup {"ext/old"}

\* The directories parser.ParseDir can read, each with the type declarations
\* of its files.  /mod/old is not among them.  The files import only what Imports
\* already has and declare no alias (type X = Y), so that loading a package
\* adds nothing to Parser.Imports and resolveExternalAlias replaces nothing.
Disk ==
    ("/mod" :> <<>>)
    @@ ("/mod/list" :>
          << TypeSpec("Node", "", StructType(
               << RawField("Val", "", Ident("int"), NilLit, FALSE),
                  RawField("Next", "", Star(Ident("Node")), NilLit, FALSE) >>)),
             TypeSpec("Kind", "", Ident("int")) >>)
    @@ ("/mod/geo" :>
          << TypeSpec("Point", "", StructType(
               << RawField("X", "", Ident("int"), NilLit, FALSE),
                  RawField("Y", "", Ident("int"), "'dto:\"-\"'", FALSE) >>)),
             TypeSpec("Line", "", StructType(
               << RawField("From", "", Ident("Point"), NilLit, FALSE),
                  RawField("Old", "Deprecated: use From", Star(Ident("Point")), NilLit, FALSE),
                  RawField("Kind", "", Selector("list", "Kind"), NilLit, FALSE) >>)),
             TypeSpec("Route", "", StructType(
               << RawField("Legs", "", Array(Ident("Line")), NilLit, FALSE),
                  RawField("Start", "", Selector("time", "Time"), NilLit, FALSE) >>)) >>)

\* The lengths of the prefixes of importPath that end where a segment ends
SegmentEnds(importPath) ==
    {i \in 1..Len(importPath) : i = Len(importPath) \/ At(importPath, i + 1) = "/"}

\* Parser.findImportMetaByModulePath, whether it finds one
IsModulePath(path) == \E a \in DOMAIN Imports : Imports[a].Path = path /\ Imports[a].Dir # ""

\* The directory resolvePkgDir joins for the module that is the first i
\* characters of importPath
PkgDirAt(importPath, i) ==
    LET meta == Imports[CHOOSE a \in DOMAIN Imports :
                           Imports[a].Path = SubSeq(importPath, 1, i) /\ Imports[a].Dir # ""]
    IN  IF i = Len(importPath) THEN meta.Dir ELSE meta.Dir \o "/" \o From(importPath, i + 2)

\* Parser.resolvePkgDir: [ok, dir], the longest prefix that is a module first
resolvePkgDir(importPath) ==
    LET hits == {i \in SegmentEnds(importPath) : IsModulePath(SubSeq(importPath, 1, i))}
    IN  IF hits = {} THEN [ok |-> FALSE, dir |-> ""]
        ELSE [ok |-> TRUE,
              dir |-> PkgDirAt(importPath, CHOOSE i \in hits : \A j \in hits : j <= i)]

\* getExternalStructAST once the package is in p.extPkgs: [p, st, err].
\* P is the Parser on its cache extPkgs and on loads, the calls made so far
\* of resolvePkgDir (located) and of parser.ParseDir (parsed) for each path.
ScanPkg(P, importPath, typeName) ==
    IF typeName \in P.extPkgs[importPath].structs
    THEN [p |-> P, st |-> Find(P.extPkgs[importPath].files, typeName).Type, err |-> FALSE]
    ELSE IF Find(P.extPkgs[importPath].files, typeName) = Nil
    THEN [p |-> P, st |-> Nil, err |-> TRUE]
    ELSE IF Find(P.extPkgs[importPath].files, typeName).Type.shape # "Struct"
    THEN [p |-> P, st |-> Nil, err |-> TRUE]
    ELSE [p |-> [P EXCEPT !.extPkgs[importPath].structs = @ \cup {typeName}],
          st |-> Find(P.extPkgs[importPath].files, typeName).Type, err |-> FALSE]

\* Parser.getExternalStructAST: [p, st, err]
getExternalStructAST(P, importPath, typeName) ==
    IF importPath \in DOMAIN P.extPkgs THEN ScanPkg(P, importPath, typeName)
    ELSE IF ~resolvePkgDir(importPath).ok
    THEN [p |-> [P EXCEPT !.loads[importPath].located = @ + 1], st |-> Nil, err |-> TRUE]
    ELSE IF resolvePkgDir(importPath).dir \notin DOMAIN Disk
    THEN [p |-> [P EXCEPT !.loads[importPath].located = @ + 1,
                          !.loads[importPath].parsed = @ + 1],
          st |-> Nil, err |-> TRUE]
    ELSE ScanPkg([P EXCEPT !.loads[importPath].located = @ + 1,
                           !.loads[importPath].parsed = @ + 1,
                           !.extPkgs = (importPath :>
                                          [files |-> Disk[resolvePkgDir(importPath).dir],
                                           structs |-> {}]) @@ @],
                 importPath, typeName)

\* Parser.rawFieldsFromExternalAST
rawFieldsFromExternalAST(st) ==
    SelectSeq(st.Fields,
              LAMBDA rf : ~(opts.ExcludeDeprecated /\ Contains(rf.Comment, "Deprecated")))

\* Builder.loadExternalRawStruct: [p, raw], raw being the fields or Nil
loadExternalRawStruct(P, pkgPath, typeName) ==
    IF pkgPath = "" \/ typeName = "" THEN [p |-> P, raw |-> Nil]
    ELSE IF getExternalStructAST(P, pkgPath, typeName).err
    THEN [p |-> getExternalStructAST(P, pkgPath, typeName).p, raw |-> Nil]
    ELSE [p |-> getExternalStructAST(P, pkgPath, typeName).p,
          raw |-> rawFieldsFromExternalAST(getExternalStructAST(P, pkgPath, typeName).st)]

\* Builder.resolveSelector: [pkgPath, typeName]
resolveSelector(sel) ==
    IF sel.X = "" THEN [pkgPath |-> "", typeName |-> sel.Sel]
    ELSE IF sel.X \in DOMAIN Imports
    THEN [pkgPath |-> Imports[sel.X].Path, typeName |-> sel.Sel]
    ELSE [pkgPath |-> "", typeName |-> sel.Sel]

\* The loop of resolveIdentType over b.imports, which visits the aliases in
\* the order the map gives them, from the i-th on: [p, hit], hit being the
\* path of the first package in which name is a struct, or ""
RECURSIVE ProbeImports(_, _, _, _)
ProbeImports(P, order, name, i) ==
    IF i > Len(order) THEN [p |-> P, hit |-> ""]
    ELSE IF ~getExternalStructAST(P, Imports[order[i]].Path, name).err
    THEN [p |-> getExternalStructAST(P, Imports[order[i]].Path, name).p,
          hit |-> Imports[order[i]].Path]
    ELSE ProbeImports(getExternalStructAST(P, Imports[order[i]].Path, name).p, order, name, i + 1)

\* The identifier or selector a type expression of pointers and slices
\* ends in
RECURSIVE LeafExpr(_)
LeafExpr(expr) ==
    CASE expr.shape = "Star"  -> LeafExpr(expr.X)
      [] expr.shape = "Array" -> LeafExpr(expr.Elt)
      [] OTHER -> expr

\* resolveTypeExpr on the pointers and slices of expr, t being the type its
\* leaf resolved to
RECURSIVE Wrapped(_, _)
Wrapped(expr, t) ==
    CASE expr.shape = "Star"  -> WT("", "", "Pointer", Wrapped(expr.X, t), <<>>, FALSE)
      [] expr.shape = "Array" -> WT("", "", "Slice", Wrapped(expr.Elt, t), <<>>, FALSE)
      [] OTHER -> t

\* resolveRawField, the WorkingField it makes of rf once its type is t
WorkingFieldOf(rf, t) ==
    [RawName |-> rf.Name, Name |-> rf.Name, Comment |-> rf.Comment,
     Embedded |-> rf.IsEmbedded, Type |-> Wrapped(rf.TypeExpr, t),
     Tag |-> Trim(buildTagLiteral(IF opts.KeepORMTags THEN parseStructTagLit(rf.TagLit)
                                  ELSE MapDelete(MapDelete(parseStructTagLit(rf.TagLit),
                                                           "gorm"), "db")),
                  BackQuote),
     RawTag |-> Trim(buildTagLiteral(parseStructTagLit(rf.TagLit)), BackQuote),
     Omit |-> FALSE,
     Deprecated |-> opts.ExcludeDeprecated /\ MarkedDeprecated(rf.Comment)]

\* resolveExternalType as it starts: the frame of the call, with the struct
\* it returns in the end and the raw fields it has yet to resolve, and the
\* Parser after loadExternalRawStruct: [p, frame]
EnterExternalType(P, pkgPath, typeName) ==
    [p |-> loadExternalRawStruct(P, pkgPath, IF typeName = "" THEN "UNKNOWN" ELSE typeName).p,
     frame |->
        [wt |-> WT(IF typeName = "" THEN "UNKNOWN" ELSE typeName, pkgPath, "Struct", Nil,
                   <<>>, TRUE),
         raw |-> IF loadExternalRawStruct(P, pkgPath,
                        IF typeName = "" THEN "UNKNOWN" ELSE typeName).raw = Nil
                 THEN <<>>
                 ELSE loadExternalRawStruct(P, pkgPath,
                        IF typeName = "" THEN "UNKNOWN" ELSE typeName).raw,
         i |-> 1]]

\* A Parser that has looked up nothing and a Builder that resolves nothing
NoExternal ==
    /\ extPkgs = <<>>
    /\ loads = [path \in ImportPaths |-> [located |-> 0, parsed |-> 0]]
    /\ stack = <<>>
    /\ ret = Nil

vars == <<pc, args, decls, opts, raws, byName, todo, out, apiStructs, refs, manifest, extPkgs, loads, stack, ret>>

\* New(opts...) and the packages Parse is about to load, their declarations
\* drawn from cat
InitFrom(cat) ==
    /\ pc = "collect"
    /\ args = <<>>
    /\ \E ds \in Picks(1, Len(cat), MaxDecls), os \in Picks(1, Len(OptionList), MaxOpts) :
          /\ decls = [i \in 1..Len(ds) |-> cat[ds[i]]]
          /\ opts = New([i \in 1..Len(os) |-> OptionList[os[i]]])
    /\ raws = <<>>
    /\ byName = <<>>
    /\ todo = {}
    /\ out = <<>>
    /\ apiStructs = <<>>
    /\ refs = <<>>
    /\ manifest = EmptyManifest
    /\ NoExternal

Init == InitFrom(Catalogue)

\* Parser.collectStructs, its effect on the options: a declared type (no
\* true alias) whose comment marks it deprecated joins ExcludeTypes, in
\* lower case, when ExcludeDeprecated is set.
RECURSIVE collectStructs(_, _)
collectStructs(o, i) ==
    IF i > Len(decls) THEN o
    ELSE collectStructs(
           IF ~decls[i].Assign /\ o.ExcludeDeprecated /\ MarkedDeprecated(decls[i].Comment)
           THEN [o EXCEPT !.ExcludeTypes = Append(@, ToLower(decls[i].Name))] ELSE o,
           i + 1)

\* Parser.collectStructs, what it appends to RawStructs for the declaration
\* ts: a slice alias for []T and []*T with T an identifier, a struct for a
\* struct type, nothing for a true alias or any other type.
RawStructOf(ts) ==
    IF ts.Assign THEN <<>>
    ELSE CASE ts.Type.shape = "Array" ->
                IF ts.Type.Elt.shape = "Ident"
                THEN <<[RawAlias(ts.Name, ts.Comment, ts.Type.Elt.Name, FALSE)
                          EXCEPT !.PkgPath = ts.PkgPath]>>
                ELSE IF ts.Type.Elt.shape = "Star" /\ ts.Type.Elt.X.shape = "Ident"
                THEN <<[RawAlias(ts.Name, ts.Comment, ts.Type.Elt.X.Name, TRUE)
                          EXCEPT !.PkgPath = ts.PkgPath]>>
                ELSE <<>>
           [] ts.Type.shape = "Struct" ->
                <<[RawStruct(ts.Name, ts.Comment, ts.Type.Fields)
                     EXCEPT !.TypeParams = ts.TypeParams, !.PkgPath = ts.PkgPath]>>
           [] OTHER -> <<>>

\* Parser.RawStructs after collectStructs has run over decls[i..]
RECURSIVE CollectRaws(_)
CollectRaws(i) == IF i > Len(decls) THEN <<>> ELSE RawStructOf(decls[i]) \o CollectRaws(i + 1)

CollectStructs ==
    /\ pc = "collect"
    /\ opts' = collectStructs(opts, 1)
    /\ raws' = CollectRaws(1)
    /\ pc' = "shells"
    /\ UNCHANGED <<args, decls, byName, todo, out, apiStructs, refs, manifest, extPkgs, loads, stack, ret>>

\* BuildAll, step 1: a shell for every raw declaration
CreateShells ==
    /\ pc = "shells"
    /\ byName' = CreateShellsLoop(NewBuilder, 1).byName
    /\ todo' = DOMAIN byName'
    /\ pc' = IF todo' = {} THEN "gather" ELSE "populate"
    /\ UNCHANGED <<args, decls, opts, raws, out, apiStructs, refs, manifest, extPkgs, loads, stack, ret>>

\* BuildAll, step 2: one turn of the range over byName, in any order
Populate ==
    /\ pc = "populate"
    /\ \E k \in todo :
          /\ byName' = populateFields([byName |-> byName, resolving |-> {}], k).byName
          /\ todo' = IF todo = {k} THEN DOMAIN byName ELSE todo \ {k}
          /\ pc' = IF todo = {k} THEN "transform" ELSE "populate"
    /\ UNCHANGED <<args, decls, opts, raws, out, apiStructs, refs, manifest, extPkgs, loads, stack, ret>>

\* BuildAll, step 3: one turn of the range over byName, in any order
Transform ==
    /\ pc = "transform"
    /\ \E k \in todo :
          /\ byName' = applyTransformations(byName, k)
          /\ todo' = todo \ {k}
          /\ pc' = IF todo = {k} THEN "gather" ELSE "transform"
    /\ UNCHANGED <<args, decls, opts, raws, out, apiStructs, refs, manifest, extPkgs, loads, stack, ret>>

\* BuildAll, step 4: the shells not omitted, in the order the range meets them
Gather ==
    /\ pc = "gather"
    /\ out' \in Orders({k \in DOMAIN byName : ~byName[k].Omit})
    /\ pc' = "map"
    /\ UNCHANGED <<args, decls, opts, raws, byName, todo, apiStructs, refs, manifest, extPkgs, loads, stack, ret>>

\* Parse: p.ApiStructs = ToApiStructs(wts, &p.Opts)
Map ==
    /\ pc = "map"
    /\ \E r \in {ToApiStructs(<<>>, byName, out, 1)} :
          apiStructs' = r.api /\ refs' = r.h
    /\ pc' = "patch"
    /\ UNCHANGED <<args, decls, opts, raws, byName, todo, out, manifest, extPkgs, loads, stack, ret>>

\* Parse: p.buildPatchStructs()
BuildPatchStructs ==
    /\ pc = "patch"
    /\ \E r \in {buildPatchStructs(refs, apiStructs)} :
          apiStructs' = r.api /\ refs' = r.h
    /\ pc' = "done"
    /\ UNCHANGED <<args, decls, opts, raws, byName, todo, out, manifest, extPkgs, loads, stack, ret>>

Next ==
    CollectStructs \/ CreateShells \/ Populate \/ Transform \/ Gather \/ Map \/ BuildPatchStructs

Spec == Init /\ [][Next]_vars

\* ------------------------------------------------------------------------
\* Properties.  What they read of a state.
\* ------------------------------------------------------------------------

\* Whether a raw field's tag has the key of an active exclude-by-tag rule
\* with the rule's value among the semicolon-separated parts of its value
TagRuleMatches(rf) ==
    /\ rf.TagLit # NilLit
    /\ \E rule \in Range(opts.ExcludeByTags) :
          LET r == Lookup(Trim(rf.TagLit, BackQuote), rule.Key)
          IN  r.ok /\ rule.Value \in Range(Split(r.value, ";"))

\* Whether a raw tag marks its field read-only, create-only or primary key
MarksReadOnly(rawTag) ==
    LET r == Lookup(rawTag, "gorm")
    IN  r.ok /\ \E part \in Range(Split(r.value, ";")) :
                   TrimSpace(part) \in {"->", "<-:create", "primaryKey"}

\* The tree of TypeRefs under the address a of the heap h
RECURSIVE TypeTree(_, _)
TypeTree(h, a) ==
    IF a = 0 THEN Nil
    ELSE [PkgPath |-> h[a].PkgPath, Name |-> h[a].Name, IsPtr |-> h[a].IsPtr,
          IsSlice |-> h[a].IsSlice, Elem |-> TypeTree(h, h[a].Elem)]

\* The tree of a pointer to the tree t
PointerTo(t) == [PkgPath |-> "", Name |-> "", IsPtr |-> TRUE, IsSlice |-> FALSE, Elem |-> t]

\* Whether the Output Struct p is the Patch struct synthesized from base b:
\* it has the base's name with the patch suffix, its comment and its fields
PatchOf(b, p) ==
    /\ p.Name = b.Name \o opts.PatchSuffix
    /\ p.Comment = b.Comment
    /\ Len(p.Fields) = Len(b.Fields)
    /\ \A j \in 1..Len(b.Fields) :
          p.Fields[j].Name = b.Fields[j].Name /\ p.Fields[j].IsEmbedded = b.Fields[j].IsEmbedded

\* The structs a step of buildPatchStructs appended
Appended == (Len(apiStructs) + 1)..Len(apiStructs')

\* Whether n is the name of an alias type of the working model
AliasNamed(n) == \E k \in DOMAIN byName : byName[k].Kind = "Alias" /\ byName[k].Name = n

\* Whether the TypeRef at t is a collection, or names an alias to one
IsCollection(h, t) == (h[t].IsSlice /\ h[t].Elem # 0) \/ (~h[t].IsSlice /\ AliasNamed(h[t].Name))

\* The Patch structs of the output and their fields
PatchFields ==
    UNION {Range(s.Fields) : s \in {x \in Range(apiStructs) : HasSuffix(x.Name, opts.PatchSuffix)}}

\* ------------------------------------------------------------------------
\* C1
\* ------------------------------------------------------------------------

\* C1: a raw field whose tag matches an active exclude-by-tag rule is, at
\* every moment and in every mode, a field of no working type (its own or a
\* parent it would be promoted into), of no base Output Struct and of no
\* Patch Output Struct.
C1_ExcludedByTagNeverAppears ==
    \A i \in 1..Len(raws) : \A rf \in Range(raws[i].Fields) :
        TagRuleMatches(rf) =>
            /\ \A k \in DOMAIN byName : \A f \in Range(byName[k].Fields) : f.RawName # rf.Name
            /\ \A s \in Range(apiStructs) : \A f \in Range(s.Fields) : f.Name # rf.Name

\* C1, its case: a declaration with a matching field has had its other
\* fields promoted into a returned parent, and the output is complete.
C1_Witness ==
    /\ pc = "done"
    /\ \E i \in 1..Len(raws) : \E rf \in Range(raws[i].Fields) :
          /\ TagRuleMatches(rf)
          /\ \E k \in Range(out) \ {raws[i].Name} : \E f \in Range(byName[k].Fields) :
                f.RawName \in {x.Name : x \in Range(raws[i].Fields)}
          /\ \E s \in Range(apiStructs) : HasSuffix(s.Name, opts.PatchSuffix)

\* ------------------------------------------------------------------------
\* C2
\* ------------------------------------------------------------------------

\* C2: when buildPatchStructs synthesizes the Patch struct of a base, a
\* base field that is not read-only tagged, not an embedded wrapper and not
\* of a collection or alias-to-collection type gets, as its Patch type, a
\* pointer to the base field's type, that type unchanged under it.
C2_ScalarGetsOnePointer ==
    [][pc = "patch" =>
        \A i \in 1..Len(apiStructs) : \A q \in Appended :
            PatchOf(apiStructs[i], apiStructs'[q]) =>
                \A j \in 1..Len(apiStructs[i].Fields) :
                    LET f == apiStructs[i].Fields[j]
                    IN  (~MarksReadOnly(f.RawTag) /\ ~f.IsEmbedded /\ ~IsCollection(refs, f.Type))
                        => TypeTree(refs', apiStructs'[q].Fields[j].Type)
                             = PointerTo(TypeTree(refs, f.Type))]_vars

\* C2, its case: a Patch struct holds both a T that became *T and a *T
\* that became **T.
C2_Witness ==
    /\ pc = "done"
    /\ \E s \in Range(apiStructs) : \E f, g \in Range(s.Fields) :
          /\ HasSuffix(s.Name, opts.PatchSuffix)
          /\ TypeTree(refs, f.Type) = PointerTo([PointerTo(Nil) EXCEPT !.IsPtr = FALSE, !.Name = "int"])
          /\ TypeTree(refs, g.Type).IsPtr /\ TypeTree(refs, g.Type).Elem.IsPtr
          /\ TypeTree(refs, g.Type).Elem.Elem.Name # ""

\* ------------------------------------------------------------------------
\* C3
\* ------------------------------------------------------------------------

\* C3: when buildPatchStructs synthesizes the Patch struct of a base, a
\* base field whose raw tag marks it read-only, create-only or primary key
\* keeps its type: the Patch field points at the very same TypeRef, whose
\* tree is unchanged, be the field an embedded wrapper or a collection, and
\* be the ORM tags kept or stripped.
C3_ReadOnlyKeepsType ==
    [][pc = "patch" =>
        \A i \in 1..Len(apiStructs) : \A q \in Appended :
            PatchOf(apiStructs[i], apiStructs'[q]) =>
                \A j \in 1..Len(apiStructs[i].Fields) :
                    LET f == apiStructs[i].Fields[j]
                    IN  MarksReadOnly(f.RawTag)
                        => /\ apiStructs'[q].Fields[j].Type = f.Type
                           /\ TypeTree(refs', f.Type) = TypeTree(refs, f.Type)]_vars

\* C3, its case: with the ORM tags stripped, the output holds a Patch
\* field that is a read-only embedded wrapper and one that is a read-only
\* collection, each with its type as in the base.
C3_Witness ==
    /\ pc = "done" /\ ~opts.KeepORMTags
    /\ \E f, g \in PatchFields :
          /\ f.IsEmbedded /\ ~refs[f.Type].IsPtr /\ ~Contains(f.Tag, "gorm")
          /\ ~g.IsEmbedded /\ refs[g.Type].IsSlice /\ ~Contains(g.Tag, "gorm")

\* ------------------------------------------------------------------------
\* C4
\* ------------------------------------------------------------------------

\* The name at the end of the Elem chain of a tree
RECURSIVE LeafName(_)
LeafName(t) == IF t.Elem = Nil THEN t.Name ELSE LeafName(t.Elem)

\* The declaration of the alias type whose output name is n
AliasDecl(n) ==
    Find(raws, CHOOSE k \in DOMAIN byName : byName[k].Kind = "Alias" /\ byName[k].Name = n)

\* Of the collection type at t: whether its element is a pointer
ElemIsPtr(h, t) == IF h[t].IsSlice THEN h[h[t].Elem].IsPtr ELSE AliasDecl(h[t].Name).AliasPtr

\* Of the collection type at t: the output name of its element type E
ElemOutputName(h, t) ==
    IF h[t].IsSlice THEN LeafName(TypeTree(h, h[t].Elem))
    ELSE LET e == AliasDecl(h[t].Name).Alias
         IN  IF e \in DOMAIN byName THEN byName[e].Name ELSE e

\* C4: when buildPatchStructs synthesizes the Patch struct of a base, a
\* base field that is not read-only and not embedded and whose type is a
\* collection of E or of *E, directly or through an alias, gets as its Patch
\* type a pointer to PatchSlice whose element names E's output name with
\* the patch suffix and is a pointer exactly when the collection's was.
C4_CollectionGetsPatchSlice ==
    [][pc = "patch" =>
        \A i \in 1..Len(apiStructs) : \A q \in Appended :
            PatchOf(apiStructs[i], apiStructs'[q]) =>
                \A j \in 1..Len(apiStructs[i].Fields) :
                    LET f  == apiStructs[i].Fields[j]
                        pt == TypeTree(refs', apiStructs'[q].Fields[j].Type)
                    IN  (~MarksReadOnly(f.RawTag) /\ ~f.IsEmbedded /\ IsCollection(refs, f.Type))
                        => /\ pt.Name = "PatchSlice" /\ pt.IsPtr /\ pt.Elem # Nil
                           /\ LeafName(pt.Elem) = ElemOutputName(refs, f.Type) \o opts.PatchSuffix
                           /\ pt.Elem.IsPtr = ElemIsPtr(refs, f.Type)]_vars

\* ------------------------------------------------------------------------
\* C5
\* ------------------------------------------------------------------------

\* Whether the comment of an Output Struct marks it deprecated
CommentDeprecated(c) == Contains(ToLower(c), "deprecated")

\* Whether the base b meets the conditions the claim lists, api being the
\* output set before the call
Eligible(api, b) ==
    /\ b.Alias = NilStr
    /\ ~HasSuffix(b.Name, opts.PatchSuffix)
    /\ Len(b.Fields) >= 1
    /\ \A s \in Range(api) : s.Name # b.Name \o opts.PatchSuffix
    /\ ~(opts.ExcludeDeprecated /\ CommentDeprecated(b.Comment))

\* C5 as the claim states it: buildPatchStructs appends the Patch struct
\* of a base exactly when the base is no alias, its name does not end with
\* the patch suffix, it has a field, no struct of the patch name existed
\* before the call, and it is not deprecated under exclude-deprecated.
C5_AsStated ==
    [][pc = "patch" =>
        \A i \in 1..Len(apiStructs) :
            (\E q \in Appended : PatchOf(apiStructs[i], apiStructs'[q]))
                <=> Eligible(apiStructs, apiStructs[i])]_vars

\* C5, amended: buildPatchStructs appends the Patch struct of a base
\* exactly when the base meets the listed conditions and is the first base
\* of its name to meet them; every struct it appends is the Patch struct of
\* such a base, so that one patch name is synthesized once.
C5_FirstEligibleOfItsName ==
    [][pc = "patch" =>
        /\ \A i \in 1..Len(apiStructs) :
              (\E q \in Appended : PatchOf(apiStructs[i], apiStructs'[q]))
                  <=> /\ Eligible(apiStructs, apiStructs[i])
                      /\ \A j \in 1..(i - 1) :
                            ~(apiStructs[j].Name = apiStructs[i].Name
                              /\ Eligible(apiStructs, apiStructs[j]))
        /\ \A q \in Appended : \E i \in 1..Len(apiStructs) :
              PatchOf(apiStructs[i], apiStructs'[q])
        /\ \A q, r \in Appended : apiStructs'[q].Name = apiStructs'[r].Name => q = r]_vars

\* C5, its case: two bases of one name, both with fields, and one Patch
\* struct of their patch name; and a base whose patch name a declared
\* struct already bore gets none.
C5_Witness ==
    /\ pc = "done"
    /\ \E i, j \in 1..Len(apiStructs) :
          /\ i < j /\ apiStructs[i].Name = apiStructs[j].Name
          /\ apiStructs[i].Alias = NilStr /\ apiStructs[j].Alias = NilStr
          /\ Len(apiStructs[i].Fields) >= 1 /\ Len(apiStructs[j].Fields) >= 1
          /\ Cardinality({q \in 1..Len(apiStructs) :
                            apiStructs[q].Name = apiStructs[i].Name \o opts.PatchSuffix}) = 1

\* ------------------------------------------------------------------------
\* C6
\* ------------------------------------------------------------------------

\* C6: buildPatchStructs leaves every Output Struct that existed before
\* it as it was (name, alias target, comment, fields in order, and the type
\* tree of every field) and only appends after them.
C6_BasesUntouched ==
    [][pc = "patch" =>
        /\ Len(apiStructs') >= Len(apiStructs)
        /\ \A i \in 1..Len(apiStructs) :
              /\ apiStructs'[i] = apiStructs[i]
              /\ \A f \in Range(apiStructs[i].Fields) :
                    TypeTree(refs', f.Type) = TypeTree(refs, f.Type)]_vars

\* C6, its case: a Patch struct has an embedded wrapper whose type was
\* cloned from the base's and renamed to the Patch version.
C6_Witness ==
    /\ pc = "done"
    /\ \E f \in PatchFields :
          /\ f.IsEmbedded /\ refs[f.Type].IsPtr
          /\ HasSuffix(LeafName(TypeTree(refs, f.Type)), opts.PatchSuffix)

\* ------------------------------------------------------------------------
\* C7, C8
\* ------------------------------------------------------------------------

\* The shell a step of the transformation range works on
Transformed == CHOOSE k \in todo : k \notin todo'

\* The anonymous embedded fields of the shell k that outlive the
\* deprecation filter and whose type is a struct with fields
EmbeddedStructs(k) ==
    {f \in Range(byName[k].Fields) :
        /\ f.Embedded /\ ~(opts.ExcludeDeprecated /\ f.Deprecated)
        /\ f.Type # Nil
        /\ Deref(byName, f.Type).Kind = "Struct"
        /\ Len(Deref(byName, f.Type).Fields) > 0}

\* Whether the step left, on the shell k, every field of the type embedded by f
Promoted(k, f) ==
    \A x \in Range(Deref(byName, f.Type).Fields) :
        \E g \in Range(byName'[k].Fields) : g.Name = x.Name

\* Whether the step left, on the shell k, the wrapper field of the embedding f
WrapperKept(k, f) == \E g \in Range(byName'[k].Fields) : g.Embedded /\ g.RawName = f.RawName

\* C7: in flatten mode, when the pipeline has run on a struct (it was not
\* omitted), each of its anonymous embedded fields whose type is a struct
\* with fields has given place to that type's fields, promoted onto the
\* struct, and the struct has no wrapper field for that embedding.
C7_FlattenPromotesAndDropsWrapper ==
    [][(pc = "transform" /\ opts.FlattenEmbedded /\ ~byName'[Transformed].Omit) =>
        \A f \in EmbeddedStructs(Transformed) :
            Promoted(Transformed, f) /\ ~WrapperKept(Transformed, f)]_vars

\* C7, its case: in flatten mode a returned struct whose declaration
\* embeds a declared struct with fields holds those fields and no wrapper.
C7_Witness ==
    /\ pc = "done" /\ opts.FlattenEmbedded
    /\ \E k \in Range(out) : \E rf \in Range(Find(raws, k).Fields) :
          /\ rf.IsEmbedded /\ rf.TypeExpr.shape = "Ident" /\ rf.TypeExpr.Name \in DOMAIN byName
          /\ Len(byName[rf.TypeExpr.Name].Fields) > 0
          /\ \A x \in Range(byName[rf.TypeExpr.Name].Fields) :
                \E g \in Range(byName[k].Fields) : g.Name = x.Name
          /\ \A g \in Range(byName[k].Fields) : ~g.Embedded

\* C8: in include mode, when the pipeline has run on a struct (it was not
\* omitted), each of its anonymous embedded fields whose type is a struct
\* with fields is still on the struct as a wrapper, and that type's fields
\* are on the struct too, promoted.
C8_IncludeKeepsWrapperAndPromotes ==
    [][(pc = "transform" /\ opts.IncludeEmbedded /\ ~byName'[Transformed].Omit) =>
        \A f \in EmbeddedStructs(Transformed) :
            Promoted(Transformed, f) /\ WrapperKept(Transformed, f)]_vars

\* ------------------------------------------------------------------------
\* C9
\* ------------------------------------------------------------------------

\* The name a declared type has in the output
OutputName(name) ==
    IF opts.Suffix # "" /\ ~HasSuffix(name, opts.Suffix) THEN name \o opts.Suffix ELSE name

\* C9: a declared type whose comment contains "deprecated" in any letter
\* case has, once the output is complete, no Output Struct of its own (none
\* carries its comment, base or Patch) when exclude-deprecated is on, and
\* has its base Output Struct, with every declared field left by the tag
\* rules, when exclude-deprecated is off.
C9_DeprecatedTypeAbsentOrWhole ==
    pc = "done" =>
        \A i \in 1..Len(raws) :
            CommentDeprecated(raws[i].Comment) =>
                IF opts.ExcludeDeprecated
                THEN \A s \in Range(apiStructs) : s.Comment # raws[i].Comment
                ELSE \E s \in Range(apiStructs) :
                        /\ s.Name = OutputName(raws[i].Name) /\ s.Comment = raws[i].Comment
                        /\ \A rf \in Range(raws[i].Fields) :
                              (~rf.IsEmbedded /\ ~TagRuleMatches(rf))
                                  => \E f \in Range(s.Fields) : f.Name = rf.Name

\* ------------------------------------------------------------------------
\* C10
\* ------------------------------------------------------------------------

\* C10: once the transformation range is over, a type whose name equals an
\* exclude-types entry but for letter case is marked Omit, bears its
\* declared name (the suffix pass did not run on it), and is not among the
\* types BuildAll returns.
C10_ExcludedNameIsOmitted ==
    pc \in {"gather", "map", "patch", "done"} =>
        \A k \in DOMAIN byName : \A e \in Range(opts.ExcludeTypes) :
            EqualFold(k, e) =>
                /\ byName[k].Omit
                /\ byName[k].Name = k
                /\ k \notin Range(out)

\* ------------------------------------------------------------------------
\* C11
\* ------------------------------------------------------------------------

\* The kept types once the transformation range is over, by declared name
Kept == {k \in DOMAIN byName : ~byName[k].Omit}

\* C11: with a non-empty suffix S configured, once the transformation range
\* is over a kept type declared as N is named N followed by S when N does
\* not end with S and N itself when it does, and the suffix pass applied
\* once more leaves that name as it is.
C11_SuffixOnceAndIdempotent ==
    (pc \in {"gather", "map", "patch", "done"} /\ opts.Suffix # "") =>
        \A k \in Kept :
            /\ byName[k].Name
                 = IF Len(k) >= Len(opts.Suffix)
                      /\ SubSeq(k, Len(k) - Len(opts.Suffix) + 1, Len(k)) = opts.Suffix
                   THEN k ELSE k \o opts.Suffix
            /\ applySuffix(byName[k]).Name = byName[k].Name

\* C11, its case: under a suffix the run returns a type declared with the
\* suffix and a type declared without it.
C11_Witness ==
    /\ pc = "done" /\ opts.Suffix # ""
    /\ \E k, n \in Range(out) :
          /\ HasSuffix(k, opts.Suffix) /\ byName[k].Name = k
          /\ ~HasSuffix(n, opts.Suffix) /\ byName[n].Name = n \o opts.Suffix

\* ------------------------------------------------------------------------
\* Builder.dedupeFields on its own: a struct with any field list
\* ------------------------------------------------------------------------

\* Most fields of the struct handed to dedupeFields.
MaxFields == 4

\* The final names its fields may bear; the empty name is that of an
\* embedded field whose type expression yields none.
FieldNames == {"", "ID", "Age"}

\* The digits that tell the fields of one list apart
Digits == "123456789"

\* The i-th field of a list, named n.  RawName records its place.
FieldAt(i, n) ==
    [RawName |-> At(Digits, i), Name |-> n, Comment |-> "", Embedded |-> (n = ""),
     Type |-> Builtin("int"), Tag |-> "", RawTag |-> "", Omit |-> FALSE, Deprecated |-> FALSE]

\* The field lists of at most MaxFields fields
FieldLists ==
    UNION {{[i \in 1..n |-> FieldAt(i, names[i])] : names \in [1..n -> FieldNames]}
             : n \in 0..MaxFields}

DedupeInit ==
    /\ pc = "dedupe"
    /\ args = <<>>
    /\ decls = <<>>
    /\ opts = New(<<>>)
    /\ raws = <<>>
    /\ \E fs \in FieldLists :
          byName = ("T" :> WT("T", "app/models", "Struct", Nil, fs, FALSE))
    /\ todo = {"T"}
    /\ out = <<>>
    /\ apiStructs = <<>>
    /\ refs = <<>>
    /\ manifest = EmptyManifest
    /\ NoExternal

\* b.dedupeFields(wt), the last pass of applyTransformations
Dedupe ==
    /\ pc = "dedupe"
    /\ byName' = [byName EXCEPT !["T"] = dedupeFields(@)]
    /\ todo' = {}
    /\ pc' = "deduped"
    /\ UNCHANGED <<args, decls, opts, raws, out, apiStructs, refs, manifest, extPkgs, loads, stack, ret>>

DedupeSpec == DedupeInit /\ [][Dedupe]_vars

\* ------------------------------------------------------------------------
\* C12
\* ------------------------------------------------------------------------

\* The place a field had in the list handed to dedupeFields
Place(f) == CHOOSE i \in 1..Len(byName["T"].Fields) : byName["T"].Fields[i] = f

\* C12: dedupeFields leaves a struct with no two fields of one non-empty
\* name; a field survives exactly when its name is empty or no earlier
\* field bore its name; the survivors are unchanged and in the order they
\* had.
C12_DedupeKeepsFirstInOrder ==
    [][pc = "dedupe" =>
        LET before == byName["T"].Fields
            after  == byName'["T"].Fields
        IN  /\ \A i, j \in 1..Len(after) :
                  (i # j /\ after[i].Name # "") => after[i].Name # after[j].Name
            /\ \A i \in 1..Len(before) :
                  (\E q \in 1..Len(after) : after[q] = before[i])
                     <=> (before[i].Name = "" \/ \A j \in 1..(i - 1) : before[j].Name # before[i].Name)
            /\ \A q \in 1..Len(after) : \E i \in 1..Len(before) : after[q] = before[i]
            /\ \A p, q \in 1..Len(after) : p < q => Place(after[p]) < Place(after[q])]_vars

\* C12, its case: from a list with two fields of one name around another
\* field and two fields without a name, the second of the name is gone and
\* both unnamed fields are kept.
C12_Witness ==
    /\ pc = "deduped"
    /\ \E i, j \in 1..Len(byName["T"].Fields) :
          /\ i < j
          /\ byName["T"].Fields[i].Name = "" /\ byName["T"].Fields[j].Name = ""
    /\ \E f \in Range(byName["T"].Fields) : f.Name # "" /\ f.RawName = "1"
    /\ \E f \in Range(byName["T"].Fields) : f.RawName = "4"
    /\ \A f \in Range(byName["T"].Fields) : f.RawName # "3"

\* ------------------------------------------------------------------------
\* Parse over declarations of every shape collectStructs tells apart
\* ------------------------------------------------------------------------

\* Declarations of several shapes and packages: a struct, slice aliases of
\* a pointer and of a plain element, a named non-slice type, a true alias,
\* a generic template, and a struct of another package with a name already
\* taken.
MixedCatalogue ==
    << Catalogue[2],
       TypeSpec("Widgets", "", Array(Star(Ident("Widget")))),
       TypeSpec("WidgetList", "", Array(Ident("Widget"))),
       TypeSpec("WidgetID", "", Ident("string")),
       [TypeSpec("WidgetRef", "", Star(Ident("Widget"))) EXCEPT !.Assign = TRUE],
       [TypeSpec("Page", "", StructType(
          << RawField("Items", "", Array(Ident("T")), NilLit, FALSE),
             RawField("Total", "", Ident("int"), "'json:\"total\"'", FALSE) >>))
          EXCEPT !.TypeParams = <<"T">>],
       [TypeSpec("Widget", "", StructType(
          << RawField("Label", "", Ident("string"), NilLit, FALSE) >>))
          EXCEPT !.PkgPath = "app/other"] >>

MixedSpec == InitFrom(MixedCatalogue) /\ [][Next]_vars

\* ------------------------------------------------------------------------
\* C13
\* ------------------------------------------------------------------------

\* Whether the declaration d is a slice alias: type N []E or type N []*E
IsSliceAlias(d) ==
    /\ ~d.Assign /\ d.Type.shape = "Array"
    /\ \/ d.Type.Elt.shape = "Ident"
       \/ d.Type.Elt.shape = "Star" /\ d.Type.Elt.X.shape = "Ident"

\* The element name E of a slice alias
ElemOf(d) == IF d.Type.Elt.shape = "Ident" THEN d.Type.Elt.Name ELSE d.Type.Elt.X.Name

\* Whether some exclude-types entry is the name n but for letter case
Excluded(n) == \E e \in Range(opts.ExcludeTypes) : ToLower(e) = ToLower(n)

\* The Output Structs of the name n and of its suffixed form
OutputsNamed(n) == {q \in 1..Len(apiStructs) : apiStructs[q].Name \in {n, OutputName(n)}}

\* C13: once the output is built, a slice-alias declaration N over E (no
\* exclude rule naming N or E) has exactly one Output Struct of its output
\* name; its Alias is the output name of E, its AliasPtr tells whether the
\* declaration was []*E, and it has no field.  A declaration that is neither
\* a struct nor a slice alias has no Output Struct.
C13_SliceAliasMapsToAliasStruct ==
    pc \in {"patch", "done"} =>
        \A i \in 1..Len(decls) :
            LET d == decls[i]
            IN  /\ (IsSliceAlias(d) /\ ~Excluded(d.Name) /\ ~Excluded(ElemOf(d))) =>
                      /\ Cardinality(OutputsNamed(d.Name)) = 1
                      /\ \A q \in OutputsNamed(d.Name) :
                            /\ apiStructs[q].Name = OutputName(d.Name)
                            /\ apiStructs[q].Alias
                                 = IF \E r \in Range(raws) : r.Name = ElemOf(d)
                                   THEN OutputName(ElemOf(d)) ELSE ElemOf(d)
                            /\ apiStructs[q].AliasPtr = (d.Type.Elt.shape = "Star")
                            /\ apiStructs[q].Fields = <<>>
                /\ (~IsSliceAlias(d) /\ (d.Assign \/ d.Type.shape # "Struct")) =>
                      OutputsNamed(d.Name) = {}

\* C13, its case: the declarations held an alias over *Widget, an alias
\* over Widget and a named string type; the output is complete and holds an
\* alias struct of each pointer-ness.
C13_Witness ==
    /\ pc = "done"
    /\ \E d \in Range(decls) : ~d.Assign /\ d.Type.shape = "Ident"
    /\ \E s, t \in Range(apiStructs) :
          /\ s.Alias = "Widget" /\ s.AliasPtr /\ s.Fields = <<>>
          /\ t.Alias = "Widget" /\ ~t.AliasPtr /\ t.Fields = <<>>

\* ------------------------------------------------------------------------
\* C14
\* ------------------------------------------------------------------------

\* C14: under every configuration, once the API Mapper has run, no Output
\* Struct bears the name of a Resolved Type that carries generic parameter
\* names.
C14_GenericTemplateNeverEmitted ==
    pc \in {"patch", "done"} =>
        \A k \in DOMAIN byName :
            Len(byName[k].TypeParams) > 0 =>
                \A s \in Range(apiStructs) : s.Name # byName[k].Name

\* ------------------------------------------------------------------------
\* C15
\* ------------------------------------------------------------------------

\* C15: once the API Mapper has run, a slice-alias declaration whose
\* element name is an exclude-types entry but for letter case has no Output
\* Struct, so that no Output Struct has an excluded type as its Alias.
C15_AliasOfExcludedNotEmitted ==
    pc \in {"patch", "done"} =>
        /\ \A d \in Range(decls) :
              (IsSliceAlias(d) /\ Excluded(ElemOf(d))) => OutputsNamed(d.Name) = {}
        /\ \A s \in Range(apiStructs) :
              s.Alias # NilStr =>
                  ~Excluded(IF opts.Suffix # "" THEN TrimSuffix(s.Alias, opts.Suffix) ELSE s.Alias)

\* ------------------------------------------------------------------------
\* Building the configuration: New(opts...), NewWithOpts(&Options{...}),
\* and the command line (bindParserFlags, then Options.Normalize)
\* ------------------------------------------------------------------------

\* Most functional options or flags of one configuration.
MaxArgs == 3

\* The Options bindParserFlags leaves before any flag is parsed
FlagDefaults == [NewDefault EXCEPT !.PatchSuffix = "Patch"]

\* The Options a caller may hand to NewWithOpts: a literal with any setting
\* of the two modes (&Options{} has neither, NewOptions() has include)
Literals ==
    {[NewDefault EXCEPT !.FlattenEmbedded = f, !.IncludeEmbedded = i] : f, i \in BOOLEAN}

\* The functional options of a New call
FnArgs == {[fn |-> "WithFlattenEmbedded"], [fn |-> "WithIncludeEmbedded"], [fn |-> "WithKeepORMTags"]}

\* The flags of a command line: --flatten-embedded[=v], --include-embedded[=v]
FlagArgs == {[flag |-> f, value |-> v] : f \in {"flatten-embedded", "include-embedded"}, v \in BOOLEAN}

\* The sequences over S of at most n elements
SeqsUpTo(S, n) == UNION {[1..k -> S] : k \in 0..n}

\* pflag's BoolVarP: the flag writes its own field and no other
SetFlag(o, a) ==
    IF a.flag = "flatten-embedded" THEN [o EXCEPT !.FlattenEmbedded = a.value]
    ELSE [o EXCEPT !.IncludeEmbedded = a.value]

ConfigInit ==
    /\ \/ pc = "options" /\ opts = NewDefault /\ args \in SeqsUpTo(FnArgs, MaxArgs)
       \/ pc = "literal" /\ opts \in Literals /\ args = <<>>
       \/ pc = "flags" /\ opts = FlagDefaults /\ args \in SeqsUpTo(FlagArgs, MaxArgs)
    /\ decls = <<>>
    /\ raws = <<>>
    /\ byName = <<>>
    /\ todo = {}
    /\ out = <<>>
    /\ apiStructs = <<>>
    /\ refs = <<>>
    /\ manifest = EmptyManifest
    /\ NoExternal

\* New: fn(o) for the next functional option
ApplyFn ==
    /\ pc = "options" /\ args # <<>>
    /\ opts' = ApplyOption(opts, Head(args))
    /\ args' = Tail(args)
    /\ UNCHANGED <<pc, decls, raws, byName, todo, out, apiStructs, refs, manifest, extPkgs, loads, stack, ret>>

\* The command line: the next flag is parsed into its field
ParseFlag ==
    /\ pc = "flags" /\ args # <<>>
    /\ opts' = SetFlag(opts, Head(args))
    /\ args' = Tail(args)
    /\ UNCHANGED <<pc, decls, raws, byName, todo, out, apiStructs, refs, manifest, extPkgs, loads, stack, ret>>

\* NewWithOpts: opts.Normalize(), then the Parser; a panic leaves none
NewWithOpts ==
    /\ pc \in {"options", "literal"} /\ args = <<>>
    /\ IF NormalizePanics(opts) THEN pc' = "panic" /\ opts' = opts
       ELSE pc' = "ready" /\ opts' = Normalize(opts)
    /\ UNCHANGED <<args, decls, raws, byName, todo, out, apiStructs, refs, manifest, extPkgs, loads, stack, ret>>

\* The commands' initOpts: options.Normalize(excludeByTagStrings...)
InitOpts ==
    /\ pc = "flags" /\ args = <<>>
    /\ IF NormalizePanics(opts) THEN pc' = "panic" /\ opts' = opts
       ELSE pc' = "ready" /\ opts' = Normalize(opts)
    /\ UNCHANGED <<args, decls, raws, byName, todo, out, apiStructs, refs, manifest, extPkgs, loads, stack, ret>>

ConfigNext == ApplyFn \/ ParseFlag \/ NewWithOpts \/ InitOpts

ConfigSpec == ConfigInit /\ [][ConfigNext]_vars

\* ------------------------------------------------------------------------
\* C16
\* ------------------------------------------------------------------------

\* C16: when Normalize runs on a configuration (in NewWithOpts or for the
\* command line), it panics, and the run has no Parser, exactly when
\* flatten-embedded and include-embedded are both set or both unset; it
\* returns exactly when one of them is set, and then the configuration it
\* leaves has exactly one of them set.
C16_BothOrNeitherIsFatal ==
    [][(pc \in {"options", "literal", "flags"} /\ args = <<>>) =>
        /\ pc' = "panic" <=> (opts.FlattenEmbedded <=> opts.IncludeEmbedded)
        /\ pc' = "ready" <=> ~(opts.FlattenEmbedded <=> opts.IncludeEmbedded)
        /\ pc' = "ready" => ~(opts'.FlattenEmbedded <=> opts'.IncludeEmbedded)]_vars

\* C16, its case: Normalize has panicked on a configuration with neither
\* mode set.
C16_Witness == pc = "panic" /\ ~opts.FlattenEmbedded /\ ~opts.IncludeEmbedded

\* ------------------------------------------------------------------------
\* C17
\* ------------------------------------------------------------------------

\* Whether the functional option or flag a sets flatten-embedded
SetsFlatten(a) ==
    a \in {[fn |-> "WithFlattenEmbedded"], [flag |-> "flatten-embedded", value |-> TRUE]}

\* Whether the functional option or flag a sets include-embedded
SetsInclude(a) ==
    a \in {[fn |-> "WithIncludeEmbedded"], [flag |-> "include-embedded", value |-> TRUE]}

\* A step of configuration in which the last mode set wins: an option or
\* flag that sets a mode leaves that mode active and the other not, an
\* option that sets neither leaves both as they were, and Normalize, run
\* when the sequence is over, returns.
LastModeSetWins ==
    /\ (pc \in {"options", "flags"} /\ args # <<>>) =>
          /\ SetsFlatten(Head(args)) => (opts'.FlattenEmbedded /\ ~opts'.IncludeEmbedded)
          /\ SetsInclude(Head(args)) => (opts'.IncludeEmbedded /\ ~opts'.FlattenEmbedded)
          /\ (~SetsFlatten(Head(args)) /\ ~SetsInclude(Head(args)) /\ pc = "options") =>
                /\ opts'.FlattenEmbedded = opts.FlattenEmbedded
                /\ opts'.IncludeEmbedded = opts.IncludeEmbedded
    /\ (pc \in {"options", "flags"} /\ args = <<>>) => pc' = "ready"

\* C17: for any sequence of functional options applied to New's default,
\* or of flags applied to the command line's defaults, the last mode set
\* wins: after each setting exactly the mode it set is active, and the
\* configuration succeeds when the sequence is over.
C17_LastModeSetWins == [][LastModeSetWins]_vars

\* What C17 says, of the functional options alone.
C17_Probe_Options == [][pc = "options" => LastModeSetWins]_vars

\* ------------------------------------------------------------------------
\* C18
\* ------------------------------------------------------------------------

\* Whether the Resolved Type of key k was built from the raw declaration r
BuiltFrom(k, r) ==
    /\ k = r.Name
    /\ byName[k].PkgPath = r.PkgPath
    /\ byName[k].Comment = r.Comment
    /\ byName[k].TypeParams = r.TypeParams

\* Whether BuildAll has returned a type built from the raw declaration r
Returned(r) == \E j \in 1..Len(out) : BuiltFrom(out[j], r)

\* C18: once BuildAll has returned, every raw declaration whose type the
\* pipeline did not omit has among the returned types one built from it,
\* two declarations of one name in different packages included, and no
\* returned type has its Omit flag set.
C18_EveryDeclarationHasItsType ==
    pc \in {"map", "patch", "done"} =>
        /\ \A i \in 1..Len(raws) : ~byName[raws[i].Name].Omit => Returned(raws[i])
        /\ \A j \in 1..Len(out) : ~byName[out[j]].Omit

\* What C18 says, of the first declaration of each name alone.
C18_Probe_FirstOfName ==
    pc \in {"map", "patch", "done"} =>
        /\ \A i \in 1..Len(raws) :
              (raws[i] = Find(raws, raws[i].Name) /\ ~byName[raws[i].Name].Omit)
                  => Returned(raws[i])
        /\ \A j \in 1..Len(out) : ~byName[out[j]].Omit

\* ------------------------------------------------------------------------
\* Recording snapshots: Manifest.AddSnapshot called again and again on a
\* manifest that starts empty
\* ------------------------------------------------------------------------

\* Most AddSnapshot calls of one run.
MaxAdds == 3

\* The snapshots a call may record ("" is the version of a caller that
\* gives none)
Snapshots ==
    {Snapshot(n, v, f) : n \in {"current", "release"}, v \in {"", "v1", "v2"},
                         f \in {"a/api_gen.go", "b/api_gen.go"}}

ManifestInit ==
    /\ pc = "manifest"
    /\ args \in SeqsUpTo(Snapshots, MaxAdds)
    /\ manifest = EmptyManifest
    /\ NoExternal
    /\ opts = NewDefault
    /\ decls = <<>>
    /\ raws = <<>>
    /\ byName = <<>>
    /\ todo = {}
    /\ out = <<>>
    /\ apiStructs = <<>>
    /\ refs = <<>>

\* m.AddSnapshot(s) for the next snapshot
Add ==
    /\ pc = "manifest" /\ args # <<>>
    /\ manifest' = AddSnapshot(manifest, Head(args))
    /\ args' = Tail(args)
    /\ UNCHANGED <<pc, decls, opts, raws, byName, todo, out, apiStructs, refs, extPkgs, loads, stack, ret>>

ManifestSpec == ManifestInit /\ [][Add]_vars

\* ------------------------------------------------------------------------
\* C19
\* ------------------------------------------------------------------------

\* Whether no two entries of the list ss share both name and version
NoDuplicates(ss) ==
    \A i, j \in 1..Len(ss) :
        (ss[i].Name = ss[j].Name /\ ss[i].Version = ss[j].Version) => i = j

\* C19: from an empty manifest, after every AddSnapshot call no two entries
\* of Snapshots share both name and version; a call with the name and
\* version of an entry replaces that entry in place and leaves the length
\* of the list and its other entries as they were, any other call appends;
\* CurrentVersion is the version of the snapshot just added; and
\* PreviousVersion is the CurrentVersion of before the call whenever that
\* was not empty.
C19_AddSnapshotKeepsManifest ==
    [][(pc = "manifest" /\ args # <<>>) =>
        /\ NoDuplicates(manifest'.Snapshots)
        /\ manifest'.CurrentVersion = Head(args).Version
        /\ manifest.CurrentVersion # "" => manifest'.PreviousVersion = manifest.CurrentVersion
        /\ IF SameEntry(manifest, Head(args)) # {}
           THEN /\ Len(manifest'.Snapshots) = Len(manifest.Snapshots)
                /\ \A i \in 1..Len(manifest.Snapshots) :
                      manifest'.Snapshots[i] =
                          IF i \in SameEntry(manifest, Head(args)) THEN Head(args)
                          ELSE manifest.Snapshots[i]
           ELSE manifest'.Snapshots = Append(manifest.Snapshots, Head(args))]_vars

\* C19, its case: a snapshot of a name and version already recorded was
\* added again with another file, after another snapshot: its entry was
\* replaced where it stood and both version pointers are its version's.
C19_Witness ==
    /\ pc = "manifest"
    /\ manifest.Snapshots = << Snapshot("current", "v1", "b/api_gen.go"),
                               Snapshot("release", "v1", "a/api_gen.go") >>
    /\ manifest.CurrentVersion = "v1"
    /\ manifest.PreviousVersion = "v1"
    /\ args = <<>>

\* ------------------------------------------------------------------------
\* C20
\* ------------------------------------------------------------------------

\* The final name of the shell bn[k] and the names of its fields, in order
Shape(bn, k) == <<bn[k].Name, [i \in 1..Len(bn[k].Fields) |-> bn[k].Fields[i].Name]>>

\* What BuildAll returns, as shapes: bn the name table, ks the keys returned
Shapes(bn, ks) == {Shape(bn, ks[j]) : j \in 1..Len(ks)}

\* The elements of the set S as a sequence, in some fixed order
RECURSIVE SeqOf(_)
SeqOf(S) == IF S = {} THEN <<>> ELSE <<CHOOSE k \in S : TRUE>> \o SeqOf(S \ {CHOOSE k \in S : TRUE})

\* The names of the declarations in their order, then the keys bn has
\* besides them
NamesThen(names, bn) == names \o SeqOf(DOMAIN bn \ Range(names))

\* The keys of the name table once populated, the declarations' names in
\* the order of raws first, then the shells populating them added
AllNames ==
    NamesThen(RawNames(1, {}),
              PopulateAll(CreateShellsLoop(NewBuilder, 1), RawNames(1, {}), 1).byName)

\* C20: the types BuildAll returns, with their final names and ordered
\* field lists, are the same whatever order its ranges over the name table
\* took: they are those of the run whose ranges take the declarations in
\* their order.
C20_BuildAllIsOrderIndependent ==
    pc \in {"map", "patch", "done"} =>
        Shapes(byName, out) = Shapes(BuildAll(AllNames).byName, BuildAll(AllNames).out)

\* What C20 says, of the runs that do not both flatten embedded types and
\* drop deprecated fields.
C20_Probe_NoDeprecatedFlatten ==
    (pc \in {"map", "patch", "done"} /\ ~(opts.ExcludeDeprecated /\ opts.FlattenEmbedded)) =>
        Shapes(byName, out) = Shapes(BuildAll(AllNames).byName, BuildAll(AllNames).out)

\* ------------------------------------------------------------------------
\* C21
\* ------------------------------------------------------------------------

\* The fields of the kept type k that are marked deprecated
DeprecatedFields(k) ==
    {i \in 1..Len(byName[k].Fields) : MarkedDeprecated(byName[k].Fields[i].Comment)}

\* C21: with exclude-deprecated, once BuildAll has returned no returned
\* type has a field marked deprecated, the fields promoted from an embedded
\* or tag-inlined type included.
C21_NoDeprecatedFieldIsKept ==
    (pc \in {"map", "patch", "done"} /\ opts.ExcludeDeprecated) =>
        \A j \in 1..Len(out) : DeprecatedFields(out[j]) = {}

\* What C21 says, of the types that embed and inline no type.
C21_Probe_OwnFields ==
    (pc \in {"map", "patch", "done"} /\ opts.ExcludeDeprecated) =>
        \A j \in 1..Len(out) :
            (\A r \in Range(raws) : r.Name = out[j] =>
                \A f \in Range(r.Fields) : ~f.IsEmbedded /\ ~isTagEmbedded(Trim(f.TagLit, BackQuote)))
                => DeprecatedFields(out[j]) = {}

\* ------------------------------------------------------------------------
\* C30
\* ------------------------------------------------------------------------

\* Manifest.SnapshotFile: the file of the first entry with that version
SnapshotFile(m, version) ==
    IF \E i \in 1..Len(m.Snapshots) : m.Snapshots[i].Version = version
    THEN m.Snapshots[CHOOSE i \in 1..Len(m.Snapshots) :
                        /\ m.Snapshots[i].Version = version
                        /\ \A j \in 1..(i - 1) : m.Snapshots[j].Version # version].File
    ELSE ""

\* C30: after every AddSnapshot(s), SnapshotFile(CurrentVersion) is s.File,
\* an earlier snapshot of another name with the same version
\* notwithstanding: the file DiffCurrentWithPrevious reads as the current
\* one is that of the snapshot added last.
C30_CurrentFileIsLastAdded ==
    [][(pc = "manifest" /\ args # <<>>) =>
        SnapshotFile(manifest', manifest'.CurrentVersion) = Head(args).File]_vars

\* What C30 says, of the calls whose version no entry of another name has.
C30_Probe_VersionOfOneName ==
    [][(pc = "manifest" /\ args # <<>>
        /\ \A i \in 1..Len(manifest.Snapshots) :
              manifest.Snapshots[i].Version = Head(args).Version
                  => manifest.Snapshots[i].Name = Head(args).Name) =>
        SnapshotFile(manifest', manifest'.CurrentVersion) = Head(args).File]_vars

\* ------------------------------------------------------------------------
\* C26
\* ------------------------------------------------------------------------

\* Whether the shells a and b have the same Omit flag, name and field list
SameResult(a, b) == a.Omit = b.Omit /\ a.Name = b.Name /\ a.Fields = b.Fields

\* C26: when the pipeline has run on a type, running applyTransformations
\* on it once more, every other type being as that run left it, leaves its
\* Omit flag, its name and its ordered field list as they are.
C26_PipelineIsIdempotent ==
    [][pc = "transform" =>
        SameResult(applyTransformations(byName', Transformed)[Transformed],
                   byName'[Transformed])]_vars

\* What C26 says, of the runs that do not both flatten embedded types and
\* drop deprecated fields.
C26_Probe_NoDeprecatedFlatten ==
    [][(pc = "transform" /\ ~(opts.ExcludeDeprecated /\ opts.FlattenEmbedded)) =>
        SameResult(applyTransformations(byName', Transformed)[Transformed],
                   byName'[Transformed])]_vars

\* ------------------------------------------------------------------------
\* C27
\* ------------------------------------------------------------------------

\* The name n with the patch suffix, appended unless n ends with it
PatchNameOnce(n) == IF HasSuffix(n, opts.PatchSuffix) THEN n ELSE n \o opts.PatchSuffix

\* The tree t with the name at the end of its Elem chain made n
RECURSIVE WithLeafName(_, _)
WithLeafName(t, n) ==
    IF t.Elem = Nil THEN [t EXCEPT !.Name = n] ELSE [t EXCEPT !.Elem = WithLeafName(@, n)]

PatchNamesOf(h, f) ==
    IF f.Type = 0 THEN {}
    ELSE IF h[f.Type].Name = "PatchSlice" /\ h[f.Type].IsPtr /\ h[f.Type].Elem # 0
    THEN {LeafName(TypeTree(h, h[f.Type].Elem))}
    ELSE IF f.IsEmbedded /\ ~MarksReadOnly(f.RawTag) THEN {LeafName(TypeTree(h, f.Type))}
    ELSE {}

\* C28: every Patch type name a field of a synthesized Patch struct refers
\* to is the name of a struct of the output, once buildPatchStructs is
\* over.
C28_PatchNamesAreDeclared ==
    [][pc = "patch" =>
        \A q \in Appended : \A f \in Range(apiStructs'[q].Fields) :
            \A n \in PatchNamesOf(refs', f) : \E s \in Range(apiStructs') : s.Name = n]_vars

\* ------------------------------------------------------------------------
\* Parse over generic declarations and declarations that refer to
\* themselves
\* ------------------------------------------------------------------------

\* Generic templates of one and two parameters, structs that instantiate
\* them, types that refer to themselves directly and through their own
\* instantiation, and structs embedded by value and by pointer, one of a
\* name that ends with the patch suffix.
GenericCatalogue ==
    << [TypeSpec("Page", "", StructType(
          << RawField("Items", "", Array(Ident("T")), NilLit, FALSE),
             RawField("Total", "", Ident("int"), "'json:\"total\"'", FALSE) >>))
          EXCEPT !.TypeParams = <<"T">>],
       TypeSpec("User", "", StructType(
         << RawField("ID", "", Ident("string"), "'json:\"id\" dto:\"-\"'", FALSE),
            RawField("Pages", "", IndexExpr(Ident("Page"), <<Ident("User")>>), NilLit, FALSE),
            RawField("Friends", "", Array(Star(Ident("User"))), NilLit, FALSE) >>)),
       [TypeSpec("Node", "", StructType(
          << RawField("Next", "", Star(IndexExpr(Ident("Node"), <<Ident("T")>>)), NilLit, FALSE),
             RawField("Val", "", Ident("T"), NilLit, FALSE) >>))
          EXCEPT !.TypeParams = <<"T">>],
       [TypeSpec("Pair", "", StructType(
          << RawField("Key", "", Ident("K"), NilLit, FALSE),
             RawField("Val", "", Star(Ident("V")), NilLit, FALSE),
             RawField("Rest", "", Array(IndexExpr(Ident("Pair"), <<Ident("V"), Ident("K")>>)),
                      NilLit, FALSE) >>))
          EXCEPT !.TypeParams = <<"K", "V">>],
       TypeSpec("Tree", "", StructType(
         << RawField("Root", "", IndexExpr(Ident("Node"), <<Ident("int")>>), NilLit, FALSE),
            RawField("Kids", "", Array(Ident("Tree")), NilLit, FALSE),
            RawField("Pairs", "", IndexExpr(Ident("Pair"), <<Ident("string"), Star(Ident("Tree"))>>),
                     NilLit, FALSE) >>)),
       TypeSpec("BasePatch", "", StructType(
         << RawField("ID", "", Ident("string"), NilLit, FALSE) >>)),
       TypeSpec("Holder", "", StructType(
         << RawField("BasePatch", "", Ident("BasePatch"), NilLit, TRUE),
            RawField("User", "", Star(Ident("User")), NilLit, TRUE),
            RawField("Age", "", Ident("int"), NilLit, FALSE) >>)) >>

GenericSpec == InitFrom(GenericCatalogue) /\ [][Next]_vars

\* ------------------------------------------------------------------------
\* C29
\* ------------------------------------------------------------------------

\* The names of the raw fields of r that no exclude-by-tag rule matches,
\* in declaration order
KeptRawNames(r) ==
    [i \in 1..Len(SelectSeq(r.Fields, LAMBDA rf : ~TagRuleMatches(rf))) |->
        SelectSeq(r.Fields, LAMBDA rf : ~TagRuleMatches(rf))[i].Name]

\* The raw names of the fields of the shell w, in order
RawNamesOf(w) == [i \in 1..Len(w.Fields) |-> w.Fields[i].RawName]

\* C29: when the population pass of BuildAll finishes, whatever order it
\* took, the field list of each local struct shell holds one Resolved
\* Field for each raw field of its declaration that no exclude-by-tag rule
\* matches, in declaration order, and no other: no shell was populated
\* twice.
C29_PopulatedExactlyOnce ==
    [][(pc = "populate" /\ pc' = "transform") =>
        \A k \in DOMAIN byName' :
            (Find(raws, k) # Nil /\ Find(raws, k).Alias = NilStr) =>
                RawNamesOf(byName'[k]) = KeptRawNames(Find(raws, k))]_vars

\* ------------------------------------------------------------------------
\* C23
\* ------------------------------------------------------------------------

\* The Builder as the population pass finds it, the types rs being resolved
BuilderResolving(rs) == [byName |-> byName, resolving |-> rs]

GenericBases ==
    {k \in DOMAIN byName :
        /\ byName[k].Kind = "Struct" /\ ~byName[k].IsExternal
        /\ Len(byName[k].TypeParams) > 0 /\ Len(byName[k].Fields) > 0}

\* The types given as arguments: builtin leaves, two of them with the
\* names of parameters of the catalogue, a pointer, and the local types
ArgTypes ==
    {Builtin("int"), Builtin("V"), WT("", "", "Pointer", Builtin("K"), <<>>, FALSE)}
        \cup {Ref(k) : k \in DOMAIN byName}

\* The type tree t with each leaf that has the name of the k-th of params
\* replaced by the k-th of targs, the pointers and slices above the leaves
\* made anew
RECURSIVE Substituted(_, _, _)
Substituted(t, params, targs) ==
    IF Deref(byName, t).Kind \in {"Pointer", "Slice"}
    THEN WT("", "", Deref(byName, t).Kind,
            Substituted(Deref(byName, t).Underlying, params, targs), <<>>, FALSE)
    ELSE IF \E i \in 1..Len(params) : params[i] = Deref(byName, t).Name
    THEN targs[CHOOSE i \in 1..Len(params) : params[i] = Deref(byName, t).Name]
    ELSE t

\* Whether inst is the instance of the base at key k for the arguments targs
IsInstanceOf(inst, k, targs) ==
    /\ ~IsRef(inst)
    /\ inst.Kind = "Struct" /\ inst.Name = byName[k].Name
    /\ inst.TypeParams = <<>>
    /\ Len(inst.Fields) = Len(byName[k].Fields)
    /\ \A i \in 1..Len(inst.Fields) :
          inst.Fields[i] =
              [byName[k].Fields[i] EXCEPT
                 !.Type = Substituted(@, byName[k].TypeParams, targs)]

\* C25: instantiating a populated local generic struct with as many
\* arguments as it declares parameters returns a new struct without
\* parameter names, whose i-th field is the base's i-th field with every
\* leaf named by the k-th parameter replaced by the k-th argument, the
\* pointers and slices rebuilt around it and every other leaf as it was;
\* the name table, the base in it, is left as it was.
C25_InstanceSubstitutesParameters ==
    \A k \in GenericBases :
       \A targs \in [1..Len(byName[k].TypeParams) -> ArgTypes] :
          /\ instantiateGeneric(BuilderResolving({}), Ref(k), targs).b = BuilderResolving({})
          /\ IsInstanceOf(instantiateGeneric(BuilderResolving({}), Ref(k), targs).t, k, targs)

\* C25, its case: the population pass has resolved the field Pages Page[User]
\* of User, and the field has the instance of Page for User, Items being a
\* slice of User
C25_Witness ==
    /\ pc = "transform"
    /\ {"User", "Page"} \subseteq DOMAIN byName
    /\ "Page" \in GenericBases
    /\ \E i \in 1..Len(byName["User"].Fields) :
          /\ byName["User"].Fields[i].RawName = "Pages"
          /\ IsInstanceOf(byName["User"].Fields[i].Type, "Page", <<Ref("User")>>)
          /\ byName["User"].Fields[i].Type.Fields[1].Type
                = WT("", "", "Slice", Ref("User"), <<>>, FALSE)

\* ------------------------------------------------------------------------
\* Lookups of external types: one Parser, its Builder resolving fields that
\* refer to types of imported packages
\* ------------------------------------------------------------------------

MaxCalls == 2
MaxDepth == 5

\* The functional options of the Parser
ExternalOptions ==
    { <<>>, << [fn |-> "WithExcludeDeprecated"] >>,
      << [fn |-> "WithExcludeByTag", k |-> "dto", v |-> "-"] >> }

\* The type expressions of the local fields that are resolved
ExternalExprs ==
    { Selector("geo", "Route"), Star(Selector("list", "Node")), Ident("Point"),
      Selector("time", "Time"), Selector("nope", "Thing"), Array(Ident("Kind")) }

\* The calls made from outside: lookups of a type in a package, and
\* resolutions of a field F of a local struct
ExternalCalls ==
    {[fn |-> "getExternalStructAST", path |-> p, name |-> n] :
        p \in {"ext/list", "ext/old", "time"}, n \in {"Node", "Kind", "Missing"}}
    \cup {[fn |-> "resolveRawField", rf |-> RawField("F", "", e, NilLit, FALSE)] :
            e \in ExternalExprs}

\* A Parser made by New, the local package declaring no type, and the calls
\* that will be made
ExternalInit ==
    /\ pc = "external"
    /\ args \in SeqsUpTo(ExternalCalls, MaxCalls)
    /\ decls = <<>>
    /\ opts \in {New(fs) : fs \in ExternalOptions}
    /\ raws = <<>>
    /\ byName = <<>>
    /\ todo = {}
    /\ out = <<>>
    /\ apiStructs = <<>>
    /\ refs = <<>>
    /\ manifest = EmptyManifest
    /\ NoExternal

\* The call on top of the stack
Top == stack[Len(stack)]

\* The stack with its top call replaced by the frames fs
WithTop(fs) == SubSeq(stack, 1, Len(stack) - 1) \o fs

\* A call of Parser.getExternalStructAST from outside
LookupExternal ==
    /\ pc = "external" /\ stack = <<>> /\ args # <<>>
    /\ Head(args).fn = "getExternalStructAST"
    /\ \E r \in {getExternalStructAST([extPkgs |-> extPkgs, loads |-> loads],
                                      Head(args).path, Head(args).name)} :
          /\ extPkgs' = r.p.extPkgs
          /\ loads' = r.p.loads
    /\ args' = Tail(args)
    /\ UNCHANGED <<pc, decls, opts, raws, byName, todo, out, apiStructs, refs, manifest, stack, ret>>

\* A call of Builder.resolveRawField on a field of a local struct, as it starts
ResolveRawField ==
    /\ pc = "external" /\ stack = <<>> /\ args # <<>>
    /\ Head(args).fn = "resolveRawField"
    /\ stack' = << [wt |-> WT("", "", "Struct", Nil, <<>>, FALSE),
                    raw |-> << Head(args).rf >>, i |-> 1] >>
    /\ args' = Tail(args)
    /\ UNCHANGED <<pc, decls, opts, raws, byName, todo, out, apiStructs, refs, manifest, extPkgs, loads, ret>>

\* The call on top has the field it is at, its type being t
FieldDone(t) ==
    stack' = WithTop(<< [Top EXCEPT !.wt.Fields = Append(@, WorkingFieldOf(Top.raw[Top.i], t)),
                                    !.i = @ + 1] >>)

\* The call on top calls resolveExternalType for the field it is at; the
\* recursion is followed MaxDepth calls deep
CallExternalType(P, pkgPath, typeName) ==
    /\ Len(stack) < MaxDepth
    /\ \E e \in {EnterExternalType(P, pkgPath, typeName)} :
          /\ stack' = Append(stack, e.frame)
          /\ extPkgs' = e.p.extPkgs
          /\ loads' = e.p.loads

\* resolveIdentType in the call on top: a builtin, or the first package of
\* b.imports, in the order of the map, in which name is a struct, or the
\* leaf of that name
ResolveIdent(name) ==
    IF name \in builtinIdents
    THEN FieldDone(Builtin(name)) /\ UNCHANGED <<extPkgs, loads>>
    ELSE \E order \in Orders(DOMAIN Imports) :
            \E r \in {ProbeImports([extPkgs |-> extPkgs, loads |-> loads], order, name, 1)} :
               IF r.hit = ""
               THEN FieldDone(Builtin(name)) /\ extPkgs' = r.p.extPkgs /\ loads' = r.p.loads
               ELSE CallExternalType(r.p, r.hit, name)

\* The call on top resolves the raw field it is at (resolveRawField, with
\* resolveTypeExpr down to the identifier or selector)
ResolveField ==
    /\ pc = "external" /\ stack # <<>> /\ Top.i <= Len(Top.raw)
    /\ IF shouldOmitFieldByTag(Top.raw[Top.i])
       THEN stack' = WithTop(<< [Top EXCEPT !.i = @ + 1] >>) /\ UNCHANGED <<extPkgs, loads>>
       ELSE CASE LeafExpr(Top.raw[Top.i].TypeExpr).shape = "Ident" ->
                   ResolveIdent(LeafExpr(Top.raw[Top.i].TypeExpr).Name)
              [] LeafExpr(Top.raw[Top.i].TypeExpr).shape = "Selector" ->
                   CallExternalType([extPkgs |-> extPkgs, loads |-> loads],
                      resolveSelector(LeafExpr(Top.raw[Top.i].TypeExpr)).pkgPath,
                      resolveSelector(LeafExpr(Top.raw[Top.i].TypeExpr)).typeName)
              [] OTHER -> FieldDone(Builtin("UNKNOWN")) /\ UNCHANGED <<extPkgs, loads>>
    /\ UNCHANGED <<pc, args, decls, opts, raws, byName, todo, out, apiStructs, refs, manifest, ret>>

\* The call on top has resolved its raw fields and returns: resolveExternalType
\* its struct, to the call that made it, and resolveRawField its fields
Return ==
    /\ pc = "external" /\ stack # <<>> /\ Top.i > Len(Top.raw)
    /\ IF Len(stack) = 1
       THEN stack' = <<>> /\ ret' = [fields |-> Top.wt.Fields]
       ELSE /\ stack' = SubSeq(stack, 1, Len(stack) - 2)
                          \o << [stack[Len(stack) - 1] EXCEPT
                                   !.wt.Fields = Append(@,
                                       WorkingFieldOf(stack[Len(stack) - 1].raw[stack[Len(stack) - 1].i],
                                                      Top.wt)),
                                   !.i = @ + 1] >>
            /\ ret' = ret
    /\ UNCHANGED <<pc, args, decls, opts, raws, byName, todo, out, apiStructs, refs, manifest, extPkgs, loads>>

ExternalNext == LookupExternal \/ ResolveRawField \/ ResolveField \/ Return

ExternalSpec == ExternalInit /\ [][ExternalNext]_vars

\* ------------------------------------------------------------------------
\* C22
\* ------------------------------------------------------------------------

\* C22: over any sequence of lookups on one Parser, each import path is
\* located on disk and parsed at most once, whether the first attempt
\* succeeded or failed.
C22_EachLocationLoadedOnce ==
    \A path \in ImportPaths : loads[path].located <= 1 /\ loads[path].parsed <= 1

\* C22 for the paths whose package is in the cache: each was located and
\* parsed exactly once.
C22_Probe_CachedPackages ==
    \A path \in DOMAIN extPkgs : loads[path].located = 1 /\ loads[path].parsed = 1

\* ------------------------------------------------------------------------
\* C24
\* ------------------------------------------------------------------------

\* The resolveExternalType calls that have not returned, outermost first
ExternalFrames == SubSeq(stack, 2, Len(stack))

\* C24: a resolveExternalType call expands the fields of its struct no
\* further than one level of nested external reference, so that at most
\* two such calls are open at a time, and none of them is for the struct of
\* a call that is still open.
C24_ExpansionIsOneLevelDeep ==
    /\ Len(ExternalFrames) <= 2
    /\ \A i, j \in 1..Len(ExternalFrames) :
          (ExternalFrames[i].wt.Name = ExternalFrames[j].wt.Name
             /\ ExternalFrames[i].wt.PkgPath = ExternalFrames[j].wt.PkgPath) => i = j

\* C24 on the mark alone: the struct of every resolveExternalType call is
\* an external struct.
C24_Probe_MarkedExternal ==
    \A i \in 1..Len(ExternalFrames) :
       ExternalFrames[i].wt.IsExternal /\ ExternalFrames[i].wt.Kind = "Struct"
====
